---- MODULE Spec2Model ----
(***************************************************************************)
(* Memory & Pattern Engine of the home assistant: the resident profile     *)
(* (decaying facts, contradiction links), the relationship graph, the door *)
(* pattern detector, the memory consolidator and the stores' file writes.  *)
(*                                                                         *)
(* Conventions.                                                            *)
(*   - Text (fact texts, names) is a sequence of one-character strings, so *)
(*     that lower(), strip() and the substring test are computed.          *)
(*   - Confidence is kept in units of 1/70: the decay of 0.1 per week is   *)
(*     then exactly one unit per elapsed day (0.7 = 49, 0.2 = 14, 1.0 = 70,*)
(*     0.3 = 21, 0.1 = 7).  Arithmetic is exact; the rounding of Python's  *)
(*     binary floats is not modelled.                                      *)
(*   - Time (datetime.now()) is the variable now, in whole days for the    *)
(*     profile and the graph and in hours for the consolidator.            *)
(*   - uuid4() ids are modelled as fresh numbers.                          *)
(*   - Fields that are only written and never read by any branch (source,  *)
(*     learned, first/last_observed of patterns) are left out of the       *)
(*     records; a fact's last_reinforced is always set, so the fallback to *)
(*     learned in _calculate_effective_confidence is never taken.          *)
(***************************************************************************)
EXTENDS Integers, Sequences, FiniteSets, TLC

VARIABLES
    now,            \* datetime.now()
    ret,            \* the last call: [op, arg, val]
    learned_facts,  \* UserProfile._data["learned_facts"]
    routines,       \* UserProfile._data["routines"]
    profile_disk,   \* the persisted copy of learned_facts (user_profile.json)
    nextFactId,     \* source of fresh fact ids (uuid4)
    people,         \* RelationshipGraph._data["people"], in insertion order
    pending,        \* RelationshipGraph._data["pending_clarifications"]
    door_patterns,  \* PatternDetector._data["door_patterns"]
    routineCalls,   \* per stored pattern, the add_routine calls made for it
    understanding,  \* MemoryConsolidator._data
    und_disk,       \* the persisted copy of understanding (understanding.json)
    oracleCalls,    \* number of calls made to the consolidation oracle
    conversations,  \* ConversationStore._data["conversations"], the summary of each ("" for none)
    preferences,    \* UserProfile._data["preferences"], the keys
    interests,      \* UserProfile._data["interests"]
    file,           \* content of a store's file, as written so far
    mem_doc,        \* the store's in-memory document
    prev_doc,       \* the last document that was written completely
    save_pc,        \* position of the store's process: idle, writing (inside _save), down
    store_kind,     \* which store the file belongs to
    knowledge_gaps, \* UserProfile._data["knowledge_gaps"]
    mention_calls,  \* the process_mention calls in flight: position and locals of each
    event_history,  \* PresenceTracker.event_history
    last_door_event \* PresenceTracker.last_door_event: <<>> for None, else <<hour>>

profileVars == <<learned_facts, routines, profile_disk, nextFactId>>
graphVars == <<people, pending>>
patternVars == <<door_patterns, routineCalls>>
consVars == <<understanding, und_disk, oracleCalls, conversations, preferences, interests>>
saveVars == <<file, mem_doc, prev_doc, save_pc, store_kind>>
gapVars == <<knowledge_gaps>>
callVars == <<mention_calls>>
presenceVars == <<event_history, last_door_event>>
vars == <<now, ret, profileVars, graphVars, patternVars, consVars, saveVars, gapVars, callVars, presenceVars>>

(***************************************************************************)
(* Bounds of the model.                                                    *)
(***************************************************************************)
MaxDay == 45
MaxFactIds == 2
MaxReinforce == 2

(***************************************************************************)
(* Text.                                                                   *)
(***************************************************************************)
Min(a, b) == IF a < b THEN a ELSE b
Max(a, b) == IF a > b THEN a ELSE b

LowerChar(c) ==
    CASE c = "J" -> "j"
      [] c = "T" -> "t"
      [] c = "M" -> "m"
      [] c = "A" -> "a"
      [] OTHER -> c

Lower(s) == [i \in DOMAIN s |-> LowerChar(s[i])]

IsSpace(c) == c = " "

RECURSIVE LStrip(_)
LStrip(s) == IF s # <<>> /\ IsSpace(Head(s)) THEN LStrip(Tail(s)) ELSE s

RECURSIVE RStrip(_)
RStrip(s) ==
    IF s # <<>> /\ IsSpace(s[Len(s)]) THEN RStrip(SubSeq(s, 1, Len(s) - 1)) ELSE s

Strip(s) == RStrip(LStrip(s))

\* Python's `a in b` on strings
IsSubstring(a, b) ==
    \E i \in 0..(Len(b) - Len(a)) : SubSeq(b, i + 1, i + Len(a)) = a

(***************************************************************************)
(* Resident profile (memory/user_profile.py).                              *)
(***************************************************************************)
CONFIDENCE_DECAY_PER_WEEK == 7
REINFORCEMENT_BOOST == 14
MAX_CONFIDENCE == 70
FADE_THRESHOLD == 21
FORGET_THRESHOLD == 7
DefaultConfidence == 49

FactTexts == { <<"j">>, <<" ", "J">>, <<"t">> }
ConfidenceArgs == { 42, DefaultConfidence }
MinConfidenceArgs == { 0, 35 }
TickDays == { 15 }

\* replies of the contradiction classifier: the call raises, or it returns a text
ClassifierReplies ==
    { [kind |-> "error", text |-> <<>>], [kind |-> "text", text |-> <<"NONE">>] }
        \cup { [kind |-> "text", text |-> t] : t \in { <<"j">>, <<"t">> } }

EffectiveConfidence(fact, t) ==
    LET days_elapsed == t - fact.last_reinforced
        decay == (days_elapsed * CONFIDENCE_DECAY_PER_WEEK) \div 7
        effective == fact.confidence - decay
    IN  Max(0, Min(MAX_CONFIDENCE, effective))

FindFactSameSpelling(facts, new_fact) ==
    LET hits == { i \in DOMAIN facts : facts[i].fact = new_fact }
    IN  IF hits = {} THEN 0 ELSE CHOOSE i \in hits : \A j \in hits : i <= j

\* index of the first stored fact with the same text, case and outer blanks ignored; 0 if none
FindSimilarFact(facts, new_fact) ==
    LET new_lower == Strip(Lower(new_fact))
        hits == { i \in DOMAIN facts : Strip(Lower(facts[i].fact)) = new_lower }
    IN  IF hits = {} THEN 0 ELSE CHOOSE i \in hits : \A j \in hits : i <= j

StatusOf(effective_conf) ==
    IF effective_conf < FORGET_THRESHOLD THEN "forgotten"
    ELSE IF effective_conf < FADE_THRESHOLD THEN "faded"
    ELSE "active"

\* get_facts, the loop's effect on the stored facts
RefreshStatus(facts, t) ==
    [i \in DOMAIN facts |->
        IF facts[i].status = "forgotten" THEN facts[i]
        ELSE [facts[i] EXCEPT !.status = StatusOf(EffectiveConfidence(facts[i], t))]]

\* list.sort(key, reverse=True): stable, highest key first
RECURSIVE InsertDesc(_, _)
InsertDesc(sorted, x) ==
    IF sorted = <<>> THEN <<x>>
    ELSE IF Head(sorted).key < x.key THEN <<x>> \o sorted
    ELSE <<Head(sorted)>> \o InsertDesc(Tail(sorted), x)

RECURSIVE SortDesc(_)
SortDesc(s) ==
    IF s = <<>> THEN <<>>
    ELSE InsertDesc(SortDesc(SubSeq(s, 1, Len(s) - 1)), s[Len(s)])

\* get_facts, the returned list: entries [key |-> effective confidence, fact |-> the refreshed fact]
RECURSIVE FactsAbove(_, _, _)
FactsAbove(facts, t, min_confidence) ==
    IF facts = <<>> THEN <<>>
    ELSE LET f == Head(facts)
             e == EffectiveConfidence(f, t)
             rest == FactsAbove(Tail(facts), t, min_confidence)
         IN  IF f.status # "forgotten" /\ e >= min_confidence
             THEN <<[key |-> e, fact |-> [f EXCEPT !.status = StatusOf(e)]]>> \o rest
             ELSE rest

GetFactsResult(facts, t, min_confidence) == SortDesc(FactsAbove(facts, t, min_confidence))

CheckContradictionsUncaught(facts, t, reply) ==
    LET active_facts == GetFactsResult(facts, t, FADE_THRESHOLD)
        result == Strip(reply.text)
    IN  IF active_facts = <<>> \/ (reply.kind = "text" /\ result = <<"NONE">>) THEN {}
        ELSE { active_facts[i].fact.id : i \in
                 { j \in DOMAIN active_facts :
                     \/ IsSubstring(active_facts[j].fact.fact, result)
                     \/ IsSubstring(result, active_facts[j].fact.fact) } }

\* _check_contradictions: ids of the active facts the classifier's reply names
CheckContradictions(facts, t, reply) ==
    LET active_facts == GetFactsResult(facts, t, FADE_THRESHOLD)
        result == Strip(reply.text)
    IN  IF active_facts = <<>> \/ reply.kind = "error" \/ result = <<"NONE">> THEN {}
        ELSE { active_facts[i].fact.id : i \in
                 { j \in DOMAIN active_facts :
                     \/ IsSubstring(active_facts[j].fact.fact, result)
                     \/ IsSubstring(result, active_facts[j].fact.fact) } }

ReinforceFactUncapped(fact, t) ==
    [fact EXCEPT !.confidence = fact.confidence + REINFORCEMENT_BOOST,
                 !.last_reinforced = t,
                 !.reinforcement_count = fact.reinforcement_count + 1]

\* _reinforce_fact, the fact after it
ReinforceFact(fact, t) ==
    [fact EXCEPT !.confidence = Min(fact.confidence + REINFORCEMENT_BOOST, MAX_CONFIDENCE),
                 !.last_reinforced = t,
                 !.reinforcement_count = fact.reinforcement_count + 1]

NewFact(id, text, confidence, t, contradiction_ids) ==
    [id |-> id, fact |-> text, confidence |-> Min(confidence, MAX_CONFIDENCE),
     last_reinforced |-> t, reinforcement_count |-> 0,
     status |-> "active", contradicts |-> contradiction_ids]

\* add_fact lines 229-233: every contradicting fact gets the new id
LinkBack(facts, contradiction_ids, new_fact_id) ==
    [i \in DOMAIN facts |->
        IF facts[i].id \in contradiction_ids
        THEN [facts[i] EXCEPT !.contradicts = @ \cup {new_fact_id}]
        ELSE facts[i]]

\* add_fact, new-fact branch: the stored facts at the return
AddNewFact(facts, id, text, confidence, t, reply) ==
    LET contradiction_ids == CheckContradictions(facts, t, reply)
        refreshed == RefreshStatus(facts, t)
    IN  LinkBack(Append(refreshed, NewFact(id, text, confidence, t, contradiction_ids)),
                 contradiction_ids, id)

\* the profile document, as json.dump writes it and json.load reads it back
ProfileDoc(facts, rts) == [learned_facts |-> facts, routines |-> rts]

SavedBeforeLinking(facts, id, text, confidence, t, reply) ==
    Append(RefreshStatus(facts, t),
           NewFact(id, text, confidence, t, CheckContradictions(facts, t, reply)))

\* add_fact, new-fact branch: the stored facts when _save (line 235) writes them
SavedByAddFact(facts, id, text, confidence, t, reply) ==
    AddNewFact(facts, id, text, confidence, t, reply)

\* add_fact, recorded in ret with the arguments arg
AddFactAs(text, confidence, reply, arg) ==
    LET existing == FindSimilarFact(learned_facts, text)
    IN  /\ IF existing # 0
           THEN /\ learned_facts[existing].reinforcement_count < MaxReinforce
                /\ learned_facts' =
                       [learned_facts EXCEPT ![existing] = ReinforceFact(@, now)]
                /\ profile_disk' = ProfileDoc(learned_facts', routines)
                /\ nextFactId' = nextFactId
                /\ ret' = [op |-> "add_fact", arg |-> arg, val |-> "reinforced"]
           ELSE /\ nextFactId <= MaxFactIds
                /\ learned_facts' =
                       AddNewFact(learned_facts, nextFactId, text, confidence, now, reply)
                /\ profile_disk' =
                       ProfileDoc(SavedByAddFact(learned_facts, nextFactId, text,
                                                 confidence, now, reply), routines)
                /\ nextFactId' = nextFactId + 1
                /\ ret' = [op |-> "add_fact", arg |-> arg, val |-> "learned"]
        /\ UNCHANGED <<now, routines, graphVars, patternVars, consVars, saveVars, gapVars, callVars, presenceVars>>

AddFact(text, confidence, reply) == AddFactAs(text, confidence, reply, <<text, confidence>>)

GetFacts(min_confidence) ==
    /\ learned_facts' = RefreshStatus(learned_facts, now)
    /\ ret' = [op |-> "get_facts", arg |-> min_confidence,
               val |-> GetFactsResult(learned_facts, now, min_confidence)]
    /\ UNCHANGED <<now, routines, profile_disk, nextFactId,
                   graphVars, patternVars, consVars, saveVars, gapVars, callVars, presenceVars>>

RECURSIVE SelectSeq2(_, _)
SelectSeq2(s, keep) ==
    IF s = <<>> THEN <<>>
    ELSE IF Head(s).id \in keep THEN <<Head(s)>> \o SelectSeq2(Tail(s), keep)
    ELSE SelectSeq2(Tail(s), keep)

PruneKeptByStatus(facts, t) ==
    SelectSeq2(facts, { facts[i].id : i \in
        { j \in DOMAIN facts : facts[j].status # "forgotten" } })

\* prune_forgotten, the facts kept
PruneKept(facts, t) ==
    SelectSeq2(facts, { facts[i].id : i \in
        { j \in DOMAIN facts : EffectiveConfidence(facts[j], t) >= FORGET_THRESHOLD } })

PruneForgotten ==
    LET kept == PruneKept(learned_facts, now)
        pruned == Len(learned_facts) - Len(kept)
    IN  /\ learned_facts' = kept
        /\ profile_disk' = IF pruned > 0 THEN ProfileDoc(kept, routines) ELSE profile_disk
        /\ ret' = [op |-> "prune_forgotten", arg |-> <<>>, val |-> pruned]
        /\ UNCHANGED <<now, routines, nextFactId, graphVars, patternVars, consVars, saveVars, gapVars, callVars, presenceVars>>

\* the boost of a fact the resident confirmed (0.2)
RESOLUTION_BOOST == 14

ResolveFactsKeepingLink(facts, keep_fact_id, remove_fact_id, t) ==
    LET kept == SelectSeq2(facts, { facts[i].id : i \in DOMAIN facts } \ {remove_fact_id})
    IN  [i \in DOMAIN kept |->
            IF kept[i].id = keep_fact_id
            THEN [kept[i] EXCEPT
                     !.confidence = Min(@ + RESOLUTION_BOOST, MAX_CONFIDENCE),
                     !.last_reinforced = t]
            ELSE kept[i]]

\* resolve_contradiction, the facts after it (both ids found)
ResolveFacts(facts, keep_fact_id, remove_fact_id, t) ==
    LET kept == SelectSeq2(facts, { facts[i].id : i \in DOMAIN facts } \ {remove_fact_id})
    IN  [i \in DOMAIN kept |->
            IF kept[i].id = keep_fact_id
            THEN [kept[i] EXCEPT
                     !.contradicts = @ \ {remove_fact_id},
                     !.confidence = Min(@ + RESOLUTION_BOOST, MAX_CONFIDENCE),
                     !.last_reinforced = t]
            ELSE kept[i]]

FoundEitherWay(facts, keep_fact_id, remove_fact_id) ==
    LET ids == { facts[i].id : i \in DOMAIN facts }
    IN  keep_fact_id \in ids /\ remove_fact_id \in ids

\* resolve_contradiction lines 454-460: keep_fact and remove_fact are both set;
\* the elif leaves remove_fact unset when the two ids are equal
FoundBoth(facts, keep_fact_id, remove_fact_id) ==
    LET ids == { facts[i].id : i \in DOMAIN facts }
    IN  keep_fact_id \in ids /\ remove_fact_id \in ids /\ keep_fact_id # remove_fact_id

ResolveContradiction(keep_fact_id, remove_fact_id) ==
    LET found == FoundBoth(learned_facts, keep_fact_id, remove_fact_id)
    IN  /\ learned_facts' =
               IF found
               THEN ResolveFacts(learned_facts, keep_fact_id, remove_fact_id, now)
               ELSE learned_facts
        /\ profile_disk' = IF found THEN ProfileDoc(learned_facts', routines) ELSE profile_disk
        /\ ret' = [op |-> "resolve_contradiction",
                   arg |-> <<keep_fact_id, remove_fact_id>>, val |-> found]
        /\ UNCHANGED <<now, routines, nextFactId, graphVars, patternVars, consVars, saveVars, gapVars, callVars, presenceVars>>

\* the clock moves on
TickProfile(days) ==
    /\ now + days <= MaxDay
    /\ now' = now + days
    /\ ret' = [op |-> "tick", arg |-> <<>>, val |-> <<>>]
    /\ UNCHANGED <<profileVars, graphVars, patternVars, consVars, saveVars, gapVars, callVars, presenceVars>>

(***************************************************************************)
(* Knowledge gaps of the resident profile (memory/user_profile.py).        *)
(* A gap is [id, topic, priority, asked, asked_date, cooldown_days,        *)
(* filled]; asked_date is <<>> for None and <<t>> for a time; a gap        *)
(* without the key "filled" has filled = FALSE.                            *)
(***************************************************************************)
DEFAULT_COOLDOWN_NAME == 30
DEFAULT_COOLDOWN_WORK == 60
DEFAULT_COOLDOWN_SCHEDULE == 45
LOWEST_PRIORITY_RANK == 2

Gap(id, topic, priority, cooldown_days) ==
    [id |-> id, topic |-> topic, priority |-> priority, asked |-> FALSE,
     asked_date |-> <<>>, cooldown_days |-> cooldown_days, filled |-> FALSE]

\* _default_knowledge_gaps
DefaultKnowledgeGaps ==
    << Gap("gap_name", "preferred_name", "high", DEFAULT_COOLDOWN_NAME),
       Gap("gap_work", "occupation", "low", DEFAULT_COOLDOWN_WORK),
       Gap("gap_schedule", "daily_schedule", "medium", DEFAULT_COOLDOWN_SCHEDULE) >>

InitGapVars == knowledge_gaps = DefaultKnowledgeGaps

(***************************************************************************)
(* The stores' files.  A document is the sequence of its entries; the file *)
(* holds the tokens written so far: "{", the entries, "}".                 *)
(***************************************************************************)
\* the stores whose _load catches a failed read, and the door-event store, whose
\* _load_state does not
StoreKinds == { "profile", "door_state" }

\* json.dump(self._data, f): the tokens of the whole document
Serialize(doc) == <<"{">> \o doc \o <<"}">>

\* json.load(f): the document, or a failure when the text is not a whole document
ParseFile(text) ==
    IF Len(text) >= 2 /\ text[1] = "{" /\ text[Len(text)] = "}"
          /\ \A i \in 2..(Len(text) - 1) : text[i] \notin { "{", "}" }
    THEN [ok |-> TRUE, doc |-> SubSeq(text, 2, Len(text) - 1)]
    ELSE [ok |-> FALSE, doc |-> <<>>]

NoRet == [op |-> "init", arg |-> <<>>, val |-> <<>>]

\* Python's None
NoneVal == "None"

\* no process_mention call has started
CallIds == { 1, 2 }
NoCall == [pc |-> "idle", name |-> <<>>, matches |-> <<>>, key |-> <<>>]
InitCallVars == mention_calls = [c \in CallIds |-> NoCall]

\* PresenceTracker._load_state without a state file
InitPresenceVars ==
    /\ event_history = <<>>
    /\ last_door_event = <<>>

InitOthers ==
    /\ now = 0
    /\ ret = NoRet
    /\ InitGapVars
    /\ InitCallVars
    /\ InitPresenceVars

InitProfileVars ==
    /\ learned_facts = <<>>
    /\ routines = <<>>
    /\ profile_disk = ProfileDoc(<<>>, <<>>)
    /\ nextFactId = 1

InitGraphVars ==
    /\ people = <<>>
    /\ pending = <<>>

InitPatternVars ==
    /\ door_patterns = <<>>
    /\ routineCalls = <<>>

\* _default_understanding; last_consolidated is <<>> for None and <<t>> for a time
DefaultUnderstanding ==
    [last_consolidated |-> <<>>, personality_sketch |-> "None",
     current_situation |-> "None", communication_notes |-> "None",
     themes |-> <<>>, open_questions |-> <<>>]

InitConsVars ==
    /\ understanding = DefaultUnderstanding
    /\ und_disk = DefaultUnderstanding
    /\ oracleCalls = 0
    /\ conversations = <<>>
    /\ preferences = <<>>
    /\ interests = <<>>

\* _load with no file yet: the default document, saved at once
InitSaveVars ==
    /\ mem_doc = <<>>
    /\ file = Serialize(<<>>)
    /\ prev_doc = <<>>
    /\ save_pc = "idle"
    /\ store_kind = "profile"

InitProfile ==
    /\ InitOthers
    /\ InitProfileVars
    /\ InitGraphVars
    /\ InitPatternVars
    /\ InitConsVars
    /\ InitSaveVars

NextProfile ==
    \/ \E text \in FactTexts, confidence \in ConfidenceArgs, reply \in ClassifierReplies :
           AddFact(text, confidence, reply)
    \/ \E m \in MinConfidenceArgs : GetFacts(m)
    \/ PruneForgotten
    \/ \E k \in 1..MaxFactIds, r \in 1..MaxFactIds : ResolveContradiction(k, r)
    \/ \E days \in TickDays : TickProfile(days)

SpecProfile == InitProfile /\ [][NextProfile]_vars

(***************************************************************************)
(* Claims about the resident profile, checked under SpecProfile.           *)
(***************************************************************************)
SameTextStored(facts, text) ==
    { i \in DOMAIN facts : Strip(Lower(facts[i].fact)) = Strip(Lower(text)) }

IsDuplicateCall == ret'.op = "add_fact" /\ SameTextStored(learned_facts, ret'.arg[1]) # {}

\* C2: an add_fact whose text equals a stored fact's text, case and surrounding
\* whitespace ignored, stores no further fact: it adds one to that fact's
\* reinforcement_count, raises its confidence by the boost whatever confidence
\* was passed, and leaves every other fact as it was.
C2_DuplicateReinforces ==
    [][IsDuplicateCall =>
         /\ Len(learned_facts') = Len(learned_facts)
         /\ \A i \in SameTextStored(learned_facts, ret'.arg[1]) :
               /\ learned_facts'[i].id = learned_facts[i].id
               /\ learned_facts'[i].fact = learned_facts[i].fact
               /\ learned_facts'[i].reinforcement_count =
                      learned_facts[i].reinforcement_count + 1
               /\ learned_facts'[i].confidence =
                      Min(learned_facts[i].confidence + REINFORCEMENT_BOOST, MAX_CONFIDENCE)
         /\ \A j \in DOMAIN learned_facts \ SameTextStored(learned_facts, ret'.arg[1]) :
               learned_facts'[j] = learned_facts[j]
      ]_vars

\* add_fact("j", 0.7) then add_fact(" J", 0.6): one fact, confidence 0.9, reinforced once
C2_Witness ==
    /\ ret.op = "add_fact" /\ ret.val = "reinforced"
    /\ ret.arg = << <<" ", "J">>, 42 >>
    /\ Len(learned_facts) = 1
    /\ learned_facts[1].fact = <<"j">>
    /\ learned_facts[1].confidence = 63
    /\ learned_facts[1].reinforcement_count = 1

\* C3: every reinforcement sets the base confidence to min(previous + 0.2, 1.0),
\* hence N of them to min(initial + N x 0.2, 1.0), never above 1.0, and sets
\* last_reinforced to the time of that reinforcement.
C3_ReinforcementBoostCapped ==
    [][IsDuplicateCall =>
         \A i \in SameTextStored(learned_facts, ret'.arg[1]) :
             /\ learned_facts'[i].confidence =
                    Min(learned_facts[i].confidence + REINFORCEMENT_BOOST, MAX_CONFIDENCE)
             /\ learned_facts'[i].confidence <= MAX_CONFIDENCE
             /\ learned_facts'[i].last_reinforced = now'
      ]_vars

\* 0.7 -> 0.9 -> 1.0: the second reinforcement, at a later time, is capped
C3_Witness ==
    /\ ret.op = "add_fact" /\ ret.val = "reinforced"
    /\ \E i \in DOMAIN learned_facts :
          /\ learned_facts[i].reinforcement_count = 2
          /\ learned_facts[i].confidence = MAX_CONFIDENCE
          /\ learned_facts[i].last_reinforced = now
          /\ now > 0

\* C4: contradiction links are symmetric in every reachable state: when a stored
\* fact lists id b, a stored fact with id b exists and lists it back.
C4_ContradictionsSymmetric ==
    \A i \in DOMAIN learned_facts :
        \A b \in learned_facts[i].contradicts :
            \E j \in DOMAIN learned_facts :
                /\ learned_facts[j].id = b
                /\ learned_facts[i].id \in learned_facts[j].contradicts

\* C5: after every get_facts each stored fact's status is the one derived from
\* its effective confidence at that moment, whatever it was before.
C5_StatusDerivedOnRead ==
    ret.op = "get_facts" =>
        \A i \in DOMAIN learned_facts :
            learned_facts[i].status =
                StatusOf(EffectiveConfidence(learned_facts[i], now))

\* C21: get_facts(m) returns exactly the stored facts whose effective confidence
\* is at least m, in non-increasing order of effective confidence, so that two
\* calls at the same instant with the same m return the same facts.
C21_GetFactsExactlyAbove ==
    ret.op = "get_facts" =>
        /\ { ret.val[i].fact.id : i \in DOMAIN ret.val } =
               { learned_facts[i].id : i \in
                   { j \in DOMAIN learned_facts :
                       EffectiveConfidence(learned_facts[j], now) >= ret.arg } }
        /\ \A i, j \in DOMAIN ret.val :
               i < j => EffectiveConfidence(ret.val[i].fact, now)
                          >= EffectiveConfidence(ret.val[j].fact, now)

\* C7: when add_fact returns, the persisted profile document is the in-memory
\* one, with the new or reinforced fact and every contradiction link of the call.
C7_AddFactDurable ==
    ret.op = "add_fact" => profile_disk = ProfileDoc(learned_facts, routines)

\* a new fact was stored with a contradiction link in both directions
C7_Witness ==
    /\ ret.op = "add_fact" /\ ret.val = "learned"
    /\ Len(learned_facts) = 2
    /\ learned_facts[2].contradicts = {learned_facts[1].id}
    /\ learned_facts[1].contradicts = {learned_facts[2].id}
    /\ profile_disk.learned_facts = learned_facts

(***************************************************************************)
(* Relationship graph (memory/relationships.py).                           *)
(* A person is [key, name, aliases, relationship_type, details,            *)
(* last_mentioned, mention_count, expected_visits, status]; people keeps   *)
(* the dict's insertion order.  Scores are in units of 1/840, which makes  *)
(* 2*M/T an integer for names of up to four characters.                    *)
(***************************************************************************)
MaxPeople == 2
MaxMentions == 2
MaxVisits == 1
MaxGraphDay == 8

SCORE_ONE == 840
DEFAULT_THRESHOLD == 588
PARTIAL_SCORE == 672
RECENT_DAYS == 7
DETAIL_CONFIDENCE == 7
DETAIL_BOOST == 1
DETAIL_MAX == 10

Truthy(x) == x # NoneVal /\ x # ""

PersonNames == { <<"m", "a">>, <<"M", "a">>, <<"m", "a", " ", "x">> }
RelationshipTypes == { "acquaintance", "friend" }
\* the mentions tried: (relationship hint, details, visiting, visit_time)
MentionArgs ==
    { [relationship_type |-> NoneVal, details |-> <<>>, visiting |-> FALSE, visit_time |-> NoneVal],
      [relationship_type |-> "acquaintance", details |-> <<>>, visiting |-> FALSE, visit_time |-> NoneVal],
      [relationship_type |-> "friend", details |-> <<>>, visiting |-> FALSE, visit_time |-> NoneVal],
      [relationship_type |-> NoneVal, details |-> <<"vinyl">>, visiting |-> FALSE, visit_time |-> NoneVal],
      [relationship_type |-> "friend", details |-> <<>>, visiting |-> TRUE, visit_time |-> NoneVal] }
GraphTickDays == { 8 }

\* difflib.SequenceMatcher.find_longest_match on a[alo..ahi], b[blo..bhi]:
\* the longest common block, the earliest in a and then in b among the longest
LongestMatch(a, b, alo, ahi, blo, bhi) ==
    LET blocks == { t \in (alo..ahi) \X (blo..bhi) \X (1..Len(a)) :
                      /\ t[1] + t[3] - 1 <= ahi
                      /\ t[2] + t[3] - 1 <= bhi
                      /\ SubSeq(a, t[1], t[1] + t[3] - 1) = SubSeq(b, t[2], t[2] + t[3] - 1) }
        Better(x, y) == \/ x[3] > y[3]
                        \/ x[3] = y[3] /\ x[1] < y[1]
                        \/ x[3] = y[3] /\ x[1] = y[1] /\ x[2] <= y[2]
    IN  IF blocks = {} THEN <<alo, blo, 0>>
        ELSE CHOOSE x \in blocks : \A y \in blocks : Better(x, y)

\* SequenceMatcher.get_matching_blocks, the total size of the blocks
RECURSIVE MatchingSize(_, _, _, _, _, _)
MatchingSize(a, b, alo, ahi, blo, bhi) ==
    IF alo > ahi \/ blo > bhi THEN 0
    ELSE LET m == LongestMatch(a, b, alo, ahi, blo, bhi)
         IN  IF m[3] = 0 THEN 0
             ELSE m[3] + MatchingSize(a, b, alo, m[1] - 1, blo, m[2] - 1)
                       + MatchingSize(a, b, m[1] + m[3], ahi, m[2] + m[3], bhi)

\* SequenceMatcher(None, a, b).ratio(): 2*M/T, and 1.0 for two empty strings
Ratio(a, b) ==
    LET total == Len(a) + Len(b)
    IN  IF total = 0 THEN SCORE_ONE
        ELSE (2 * MatchingSize(a, b, 1, Len(a), 1, Len(b)) * SCORE_ONE) \div total

\* the ratios of the names that occur, computed once
EmptyName == <<>>
LoweredNames == { Lower(n) : n \in PersonNames \cup { EmptyName } }
RatioOf == [a \in LoweredNames, b \in LoweredNames |-> Ratio(a, b)]

\* _name_similarity
NameSimilarity(name1, name2) == RatioOf[Lower(name1), Lower(name2)]

\* find_by_name, the entries one person contributes, in the order appended
PersonMatches(name, person, idx, threshold) ==
    LET primary_score == NameSimilarity(name, person.name)
        alias_hits == { i \in DOMAIN person.aliases :
                          NameSimilarity(name, person.aliases[i]) >= threshold }
        first_alias == CHOOSE i \in alias_hits : \A j \in alias_hits : i <= j
        alias_entry ==
            IF alias_hits = {} THEN <<>>
            ELSE <<[key |-> NameSimilarity(name, person.aliases[first_alias]),
                    idx |-> idx, matched_on |-> "alias"]>>
        partial_entry ==
            IF IsSubstring(Lower(name), Lower(person.name))
            THEN <<[key |-> PARTIAL_SCORE, idx |-> idx, matched_on |-> "partial"]>>
            ELSE <<>>
    IN  IF person.status = "removed" THEN <<>>
        ELSE IF primary_score >= threshold
        THEN <<[key |-> primary_score, idx |-> idx, matched_on |-> "name"]>>
        ELSE alias_entry \o partial_entry

RECURSIVE MatchesFrom(_, _, _, _)
MatchesFrom(name, ppl, idx, threshold) ==
    IF idx > Len(ppl) THEN <<>>
    ELSE PersonMatches(name, ppl[idx], idx, threshold)
             \o MatchesFrom(name, ppl, idx + 1, threshold)

\* find_by_name: entries [key |-> score, idx |-> position of the person, matched_on]
FindByName(ppl, name, threshold) == SortDesc(MatchesFrom(name, ppl, 1, threshold))

AutoResolveNarrowing(ppl, matches, relationship_hint, t) ==
    LET week_ago == t - RECENT_DAYS
        all == DOMAIN matches
        type_matches == { i \in all :
                            ppl[matches[i].idx].relationship_type = relationship_hint }
        after_type == IF Truthy(relationship_hint) /\ type_matches # {}
                      THEN type_matches ELSE all
        recent_matches == { i \in after_type :
                              ppl[matches[i].idx].last_mentioned > week_ago }
        after_recent == IF recent_matches # {} THEN recent_matches ELSE after_type
        visiting_matches == { i \in after_recent :
                                ppl[matches[i].idx].expected_visits # <<>> }
        The(S) == matches[CHOOSE i \in S : TRUE].idx
    IN  IF Truthy(relationship_hint) /\ Cardinality(type_matches) = 1 THEN The(type_matches)
        ELSE IF Cardinality(recent_matches) = 1 THEN The(recent_matches)
        ELSE IF Cardinality(visiting_matches) = 1 THEN The(visiting_matches)
        ELSE 0

AutoResolveGuessing(ppl, matches, relationship_hint, t) ==
    LET type_matches == { i \in DOMAIN matches :
                            ppl[matches[i].idx].relationship_type = relationship_hint }
    IN  IF Truthy(relationship_hint) /\ Cardinality(type_matches) = 1
        THEN matches[CHOOSE i \in type_matches : TRUE].idx
        ELSE matches[1].idx

\* _auto_resolve: the position of the chosen person, 0 for None
AutoResolve(ppl, matches, relationship_hint, t) ==
    LET week_ago == t - RECENT_DAYS
        type_matches == { i \in DOMAIN matches :
                            ppl[matches[i].idx].relationship_type = relationship_hint }
        recent_matches == { i \in DOMAIN matches :
                              ppl[matches[i].idx].last_mentioned > week_ago }
        visiting_matches == { i \in DOMAIN matches :
                                ppl[matches[i].idx].expected_visits # <<>> }
        The(S) == matches[CHOOSE i \in S : TRUE].idx
    IN  IF Truthy(relationship_hint) /\ Cardinality(type_matches) = 1 THEN The(type_matches)
        ELSE IF Cardinality(recent_matches) = 1 THEN The(recent_matches)
        ELSE IF Cardinality(visiting_matches) = 1 THEN The(visiting_matches)
        ELSE 0

ReplaceSpaces(s) == [i \in DOMAIN s |-> IF s[i] = " " THEN "_" ELSE s[i]]

UuidToken(n) == <<"u1", "u2", "u3", "u4", "u5", "u6">>[n]

Keys(ppl) == { ppl[i].key : i \in DOMAIN ppl }

\* _generate_key
GenerateKey(ppl, name, relationship_type) ==
    LET plain == ReplaceSpaces(Lower(name))
        base == IF Truthy(relationship_type)
                THEN plain \o <<"_", relationship_type>> ELSE plain
    IN  IF base \in Keys(ppl) THEN base \o <<"_", UuidToken(Len(ppl))>> ELSE base

\* add_person
WithPerson(ppl, name, relationship_type, details, t) ==
    Append(ppl,
        [key |-> GenerateKey(ppl, name, relationship_type),
         name |-> name,
         aliases |-> <<>>,
         relationship_type |-> relationship_type,
         details |-> [i \in DOMAIN details |->
                         [fact |-> details[i], confidence |-> DETAIL_CONFIDENCE]],
         last_mentioned |-> t,
         mention_count |-> 1,
         expected_visits |-> <<>>,
         status |-> "active"])

\* record_mention without the timestamp
WithMentionUndated(ppl, idx, t) ==
    [ppl EXCEPT ![idx].mention_count = @ + 1]

\* record_mention
WithMention(ppl, idx, t) ==
    [ppl EXCEPT ![idx].mention_count = @ + 1, ![idx].last_mentioned = t]

\* update_person(key, relationship_type=...)
WithRelationshipType(ppl, idx, relationship_type) ==
    [ppl EXCEPT ![idx].relationship_type = relationship_type]

\* add_detail
WithDetail(ppl, idx, detail) ==
    LET ds == ppl[idx].details
        same == { i \in DOMAIN ds : Lower(<<ds[i].fact>>) = Lower(<<detail>>) }
        first == CHOOSE i \in same : \A j \in same : i <= j
    IN  IF same # {}
        THEN [ppl EXCEPT ![idx].details[first].confidence = Min(DETAIL_MAX, @ + DETAIL_BOOST)]
        ELSE [ppl EXCEPT ![idx].details =
                  Append(@, [fact |-> detail, confidence |-> DETAIL_CONFIDENCE])]

RECURSIVE WithDetails(_, _, _)
WithDetails(ppl, idx, details) ==
    IF details = <<>> THEN ppl
    ELSE WithDetails(WithDetail(ppl, idx, Head(details)), idx, Tail(details))

\* set_expected_visit
WithExpectedVisit(ppl, idx, when) ==
    [ppl EXCEPT ![idx].expected_visits = Append(@, [when |-> when])]

WithUpdateUncounted(ppl, idx, relationship_type, details, visit, t) ==
    LET p2 == IF Truthy(relationship_type) /\ relationship_type # "acquaintance"
              THEN WithRelationshipType(ppl, idx, relationship_type) ELSE ppl
        p3 == WithDetails(p2, idx, details)
    IN  IF visit.visiting
        THEN WithExpectedVisit(p3, idx,
                 IF Truthy(visit.visit_time) THEN visit.visit_time ELSE "soon")
        ELSE p3

\* process_mention lines 269-284 and 289-301: the update of the matched person
WithUpdate(ppl, idx, relationship_type, details, visit, t) ==
    LET p1 == WithMention(ppl, idx, t)
        p2 == IF Truthy(relationship_type) /\ relationship_type # "acquaintance"
              THEN WithRelationshipType(p1, idx, relationship_type) ELSE p1
        p3 == WithDetails(p2, idx, details)
    IN  IF visit.visiting
        THEN WithExpectedVisit(p3, idx,
                 IF Truthy(visit.visit_time) THEN visit.visit_time ELSE "soon")
        ELSE p3

\* process_mention lines 258-265: the new person
WithCreated(ppl, name, relationship_type, details, visit, t) ==
    LET p1 == WithPerson(ppl, name,
                  IF Truthy(relationship_type) THEN relationship_type ELSE "acquaintance",
                  details, t)
    IN  IF visit.visiting
        THEN WithExpectedVisit(p1, Len(p1),
                 IF Truthy(visit.visit_time) THEN visit.visit_time ELSE "soon")
        ELSE p1

\* the candidate list as queued and as returned: (key, name, relationship type) per entry
Candidates(ppl, matches) ==
    [i \in DOMAIN matches |->
        [key |-> ppl[matches[i].idx].key,
         name |-> ppl[matches[i].idx].name,
         relationship_type |-> ppl[matches[i].idx].relationship_type]]

RECURSIVE WithoutNameExact(_, _)
WithoutNameExact(queue, name) ==
    IF queue = <<>> THEN <<>>
    ELSE IF Head(queue).name = name THEN WithoutNameExact(Tail(queue), name)
    ELSE <<Head(queue)>> \o WithoutNameExact(Tail(queue), name)

RECURSIVE WithoutName(_, _)
WithoutName(queue, name) ==
    IF queue = <<>> THEN <<>>
    ELSE IF Lower(Head(queue).name) = Lower(name) THEN WithoutName(Tail(queue), name)
    ELSE <<Head(queue)>> \o WithoutName(Tail(queue), name)

\* _add_pending_clarification
WithPendingClarification(queue, ppl, name, matches, t) ==
    Append(WithoutName(queue, name),
           [name |-> name, matches |-> Candidates(ppl, matches)])

WithinGraphBounds(ppl) ==
    /\ Len(ppl) <= MaxPeople
    /\ \A i \in DOMAIN ppl :
          /\ ppl[i].mention_count <= MaxMentions
          /\ Len(ppl[i].expected_visits) <= MaxVisits

\* the people after a mention left for clarification, had the first candidate's
\* mention been recorded
WithClarificationCounted(ppl, matches, t) == WithMention(ppl, matches[1].idx, t)

\* the people after a mention left for clarification: only the queue is written
WithClarificationQueued(ppl, matches, t) == ppl

ProcessMention(name, relationship_type, details, visit) ==
    LET matches == FindByName(people, name, DEFAULT_THRESHOLD)
        resolved == AutoResolve(people, matches, relationship_type, now)
        call == [name |-> name, relationship_type |-> relationship_type]
    IN  /\ IF matches = <<>>
           THEN /\ people' = WithCreated(people, name, relationship_type, details, visit, now)
                /\ pending' = pending
                /\ ret' = [op |-> "process_mention", arg |-> call,
                           val |-> [action |-> "created", key |-> people'[Len(people')].key]]
           ELSE IF Len(matches) = 1
           THEN /\ people' = WithUpdate(people, matches[1].idx, relationship_type,
                                        details, visit, now)
                /\ pending' = pending
                /\ ret' = [op |-> "process_mention", arg |-> call,
                           val |-> [action |-> "updated", key |-> people[matches[1].idx].key]]
           ELSE IF resolved # 0
           THEN /\ people' = WithUpdate(people, resolved, relationship_type,
                                        details, visit, now)
                /\ pending' = pending
                /\ ret' = [op |-> "process_mention", arg |-> call,
                           val |-> [action |-> "updated", key |-> people[resolved].key]]
           ELSE /\ people' = WithClarificationQueued(people, matches, now)
                /\ pending' = WithPendingClarification(pending, people, name, matches, now)
                /\ ret' = [op |-> "process_mention", arg |-> call,
                           val |-> [action |-> "ambiguous",
                                    matches |-> Candidates(people, matches)]]
        /\ WithinGraphBounds(people')
        /\ UNCHANGED <<now, profileVars, patternVars, consVars, saveVars, gapVars, callVars, presenceVars>>

AddPerson(name, relationship_type) ==
    /\ people' = WithPerson(people, name, relationship_type, <<>>, now)
    /\ WithinGraphBounds(people')
    /\ ret' = [op |-> "add_person", arg |-> [name |-> name],
               val |-> [key |-> people'[Len(people')].key]]
    /\ UNCHANGED <<now, pending, profileVars, patternVars, consVars, saveVars, gapVars, callVars, presenceVars>>

\* the candidate keys of the clarifications queued for the name
CandidateKeys(queue, name) ==
    UNION { { queue[i].matches[j].key : j \in DOMAIN queue[i].matches } :
              i \in { k \in DOMAIN queue : Lower(queue[k].name) = Lower(name) } }

ResolveClarification(name, chosen_key) ==
    LET hits == { i \in DOMAIN people : people[i].key = chosen_key }
    IN  /\ pending' = WithoutName(pending, name)
        /\ people' = IF hits = {} THEN people
                     ELSE WithMention(people, CHOOSE i \in hits : TRUE, now)
        /\ WithinGraphBounds(people')
        /\ ret' = [op |-> "resolve_clarification",
                   arg |-> [name |-> name, chosen_key |-> chosen_key],
                   val |-> [recorded |-> hits # {},
                            candidates |-> CandidateKeys(pending, name)]]
        /\ UNCHANGED <<now, profileVars, patternVars, consVars, saveVars, gapVars, callVars, presenceVars>>

TickGraph(days) ==
    /\ now + days <= MaxGraphDay
    /\ now' = now + days
    /\ ret' = [op |-> "tick", arg |-> <<>>, val |-> <<>>]
    /\ UNCHANGED <<profileVars, graphVars, patternVars, consVars, saveVars, gapVars, callVars, presenceVars>>

InitGraph ==
    /\ InitOthers
    /\ InitProfileVars
    /\ InitGraphVars
    /\ InitPatternVars
    /\ InitConsVars
    /\ InitSaveVars

NextGraph ==
    \/ \E name \in PersonNames, m \in MentionArgs :
           ProcessMention(name, m.relationship_type, m.details,
                          [visiting |-> m.visiting, visit_time |-> m.visit_time])
    \/ \E name \in PersonNames, relationship_type \in RelationshipTypes :
           AddPerson(name, relationship_type)
    \/ \E name \in PersonNames, key \in Keys(people) \cup {<<"nobody">>} :
           ResolveClarification(name, key)
    \/ \E days \in GraphTickDays : TickGraph(days)

SpecGraph == InitGraph /\ [][NextGraph]_vars

(***************************************************************************)
(* Claims about the relationship graph, checked under SpecGraph.           *)
(***************************************************************************)
\* the candidates of a mention none of the three heuristics narrows to exactly one
NoHeuristicConverges(name, hint) ==
    LET cands == FindByName(people, name, DEFAULT_THRESHOLD)
        Person(i) == people[cands[i].idx]
        same_type == { i \in DOMAIN cands : Person(i).relationship_type = hint }
        recent == { i \in DOMAIN cands : now - Person(i).last_mentioned < RECENT_DAYS }
        visited == { i \in DOMAIN cands : Len(Person(i).expected_visits) > 0 }
    IN  /\ Len(cands) >= 2
        /\ ~(Truthy(hint) /\ Cardinality(same_type) = 1)
        /\ Cardinality(recent) # 1
        /\ Cardinality(visited) # 1

PendingFor(queue, name) == { i \in DOMAIN queue : Lower(queue[i].name) = Lower(name) }

\* C1: when a mention has two or more candidates and none of the three heuristics
\* selects exactly one of them, process_mention returns 'ambiguous' (never
\* 'updated') with every candidate, and the queue then holds exactly one
\* pending clarification for that name.
C1_NeverGuesses ==
    [][(/\ ret'.op = "process_mention"
        /\ NoHeuristicConverges(ret'.arg.name, ret'.arg.relationship_type))
         => /\ ret'.val.action = "ambiguous"
            /\ ret'.val.action # "updated"
            /\ Len(ret'.val.matches) =
                   Len(FindByName(people, ret'.arg.name, DEFAULT_THRESHOLD))
            /\ \A i \in DOMAIN ret'.val.matches :
                   ret'.val.matches[i].key =
                       people[FindByName(people, ret'.arg.name, DEFAULT_THRESHOLD)[i].idx].key
            /\ Cardinality(PendingFor(pending', ret'.arg.name)) = 1
      ]_vars

\* two people of one name and different types, neither mentioned in the last
\* 7 days, neither with a visit: the mention came back ambiguous and is queued once
C1_Witness ==
    /\ ret.op = "process_mention"
    /\ ret.val.action = "ambiguous"
    /\ Len(ret.val.matches) = 2
    /\ Len(people) = 2
    /\ Lower(people[1].name) = Lower(people[2].name)
    /\ people[1].relationship_type # people[2].relationship_type
    /\ \A i \in DOMAIN people :
          /\ now - people[i].last_mentioned >= RECENT_DAYS
          /\ people[i].expected_visits = <<>>
    /\ Cardinality(PendingFor(pending, ret.arg.name)) = 1

\* no two queued clarifications are for the same name, case ignored
OnePendingPerName(queue) ==
    \A i, j \in DOMAIN queue : Lower(queue[i].name) = Lower(queue[j].name) => i = j

\* C14: the queue never holds two clarifications for one name, case ignored; an
\* ambiguous mention leaves the queue with its own entry for the name, the
\* candidates of this mention, as the only one; after resolve_clarification
\* no entry for the name remains.
C14_OnePendingPerName ==
    /\ OnePendingPerName(pending)
    /\ [][ /\ OnePendingPerName(pending')
           /\ (ret'.op = "process_mention" /\ ret'.val.action = "ambiguous")
                 => /\ pending' # <<>>
                    /\ pending'[Len(pending')].name = ret'.arg.name
                    /\ pending'[Len(pending')].matches = ret'.val.matches
                    /\ PendingFor(pending', ret'.arg.name) = { Len(pending') }
           /\ ret'.op = "resolve_clarification"
                 => PendingFor(pending', ret'.arg.name) = {}
         ]_vars

\* two names are queued at once, and the later mention's spelling differs from
\* the stored people's: the queue holds one entry for each
C14_Witness ==
    /\ ret.op = "process_mention"
    /\ ret.val.action = "ambiguous"
    /\ Len(pending) = 2
    /\ pending[2].name = <<"M", "a">>
    /\ Lower(pending[1].name) # Lower(pending[2].name)

(***************************************************************************)
(* Door pattern detector (context/patterns.py).                            *)
(* A door event is [weekday, hour, minute] with Monday = 0.  A pattern's   *)
(* confidence is in tenths (0.6 = 6); its time_bucket is <<hour, minute>>  *)
(* for "HH:MM" and "late" for the night pattern; its description is the    *)
(* pair of the type and the time it is built from.  A routine is           *)
(* [key, value, source], in the dict's insertion order.                    *)
(***************************************************************************)
MaxPatterns == 7

MIN_OBSERVATIONS == 5
CONFIDENCE_THRESHOLD == 6
TIME_BUCKET_MINUTES == 30
FULL_CONFIDENCE_AT == 10
SATURDAY == 5
MORNING_FROM == 7
MORNING_TO == 10
EVENING_FROM == 17
EVENING_TO == 20
LATE_FROM == 23
LATE_BEFORE == 4

Event(weekday, hour, minute) == [weekday |-> weekday, hour |-> hour, minute |-> minute]

RECURSIVE Repeat(_, _)
Repeat(e, n) == IF n = 0 THEN <<>> ELSE <<e>> \o Repeat(e, n - 1)

\* the event lists handed to update_patterns: runs of a Monday 08:05, a Monday
\* 08:50, a Monday 18:10 and a Saturday 23:30 event
EventList(a, b, c, d) ==
    Repeat(Event(0, 8, 5), a) \o Repeat(Event(0, 8, 50), b)
        \o Repeat(Event(0, 18, 10), c) \o Repeat(Event(5, 23, 30), d)

EventLists ==
    { EventList(4, 0, 0, 0), EventList(5, 0, 0, 0), EventList(6, 0, 0, 0),
      EventList(6, 5, 0, 0), EventList(3, 3, 0, 0), EventList(0, 0, 7, 0),
      EventList(0, 0, 0, 6), EventList(0, 0, 0, 5) }

\* _time_bucket
TimeBucket(dt) ==
    <<dt.hour, (dt.minute \div TIME_BUCKET_MINUTES) * TIME_BUCKET_MINUTES>>

\* _day_type
DayType(dt) == IF dt.weekday >= SATURDAY THEN "weekend" ELSE "weekday"

\* min(n / 10, 1.0), in tenths
ConfidenceOf(n) == Min(n, FULL_CONFIDENCE_AT)

\* the keys of a defaultdict filled in the order of s: first occurrences, in order
RECURSIVE FirstOccurrences(_)
FirstOccurrences(s) ==
    IF s = <<>> THEN <<>>
    ELSE LET rest == FirstOccurrences(SubSeq(s, 1, Len(s) - 1))
             x == s[Len(s)]
         IN  IF \E i \in DOMAIN rest : rest[i] = x THEN rest ELSE Append(rest, x)

RECURSIVE SumMinutes(_)
SumMinutes(events) ==
    IF events = <<>> THEN 0
    ELSE 60 * Head(events).hour + Head(events).minute + SumMinutes(Tail(events))

\* lines 129-130 and 147-148: the mean time of day, cut to whole minutes
AvgTime(events) ==
    LET total == SumMinutes(events)
        n == Len(events)
    IN  <<total \div (60 * n), (total \div n) % 60>>

Pattern(type, time_bucket, observations) ==
    [type |-> type, time_bucket |-> time_bucket, observations |-> observations,
     confidence |-> ConfidenceOf(observations),
     description |-> <<type, time_bucket>>, promoted |-> FALSE]

\* lines 96-107 and 110-121: one pattern per bucket of the day type with enough events
BucketPatterns(events, day_type, type) ==
    LET of_day == SelectSeq(events, LAMBDA e : DayType(e) = day_type)
        buckets == FirstOccurrences([i \in DOMAIN of_day |-> TimeBucket(of_day[i])])
        InBucket(b) == SelectSeq(of_day, LAMBDA e : TimeBucket(e) = b)
        full == SelectSeq(buckets, LAMBDA b : Len(InBucket(b)) >= MIN_OBSERVATIONS)
    IN  [i \in DOMAIN full |-> Pattern(type, full[i], Len(InBucket(full[i])))]

\* lines 124-139 and 142-157: weekday events with from <= hour <= to
WindowPatterns(events, type, from, to) ==
    LET window == SelectSeq(events, LAMBDA e :
                      DayType(e) = "weekday" /\ from <= e.hour /\ e.hour <= to)
    IN  IF Len(window) >= MIN_OBSERVATIONS
        THEN <<Pattern(type, AvgTime(window), Len(window))>>
        ELSE <<>>

\* lines 160-170
NightOwlPatterns(events) ==
    LET late_night_events == SelectSeq(events, LAMBDA e :
                                 e.hour >= LATE_FROM \/ e.hour < LATE_BEFORE)
    IN  IF Len(late_night_events) >= MIN_OBSERVATIONS
        THEN <<Pattern("night_owl", "late", Len(late_night_events))>>
        ELSE <<>>

\* analyze_door_events
AnalyzeDoorEvents(events) ==
    IF Len(events) < MIN_OBSERVATIONS THEN <<>>
    ELSE BucketPatterns(events, "weekday", "weekday_activity")
         \o BucketPatterns(events, "weekend", "weekend_activity")
         \o WindowPatterns(events, "morning_departure", MORNING_FROM, MORNING_TO)
         \o WindowPatterns(events, "evening_arrival", EVENING_FROM, EVENING_TO)
         \o NightOwlPatterns(events)

\* _find_pattern: the position of the first stored pattern of that type and bucket, 0 for None
FindPattern(patterns, pattern_type, time_bucket) ==
    LET found == { i \in DOMAIN patterns :
                     /\ patterns[i].type = pattern_type
                     /\ patterns[i].time_bucket = time_bucket }
    IN  IF found = {} THEN 0 ELSE CHOOSE i \in found : \A j \in found : i <= j

MergePatternsAppending(patterns, new_patterns) == patterns \o new_patterns

\* update_patterns lines 182-191: the stored patterns after the new ones are merged in
RECURSIVE MergePatterns(_, _)
MergePatterns(patterns, new_patterns) ==
    IF new_patterns = <<>> THEN patterns
    ELSE LET new_p == Head(new_patterns)
             existing == FindPattern(patterns, new_p.type, new_p.time_bucket)
             merged == IF existing # 0
                       THEN [patterns EXCEPT ![existing].observations = new_p.observations,
                                             ![existing].confidence = new_p.confidence]
                       ELSE Append(patterns, new_p)
         IN  MergePatterns(merged, Tail(new_patterns))

ShouldPromoteAbove(pattern) ==
    /\ ~pattern.promoted
    /\ pattern.confidence > CONFIDENCE_THRESHOLD
    /\ pattern.observations >= MIN_OBSERVATIONS

PromotesAgain(pattern) ==
    /\ pattern.confidence >= CONFIDENCE_THRESHOLD
    /\ pattern.observations >= MIN_OBSERVATIONS

\* _promote_patterns lines 214-218: the pattern is promoted in this pass
ShouldPromote(pattern) ==
    /\ ~pattern.promoted
    /\ pattern.confidence >= CONFIDENCE_THRESHOLD
    /\ pattern.observations >= MIN_OBSERVATIONS

\* add_routine that keeps the value of a key already set
AddRoutineKeepingFirst(rts, key, value, source) ==
    IF \E i \in DOMAIN rts : rts[i].key = key THEN rts
    ELSE Append(rts, [key |-> key, value |-> value, source |-> source])

\* UserProfile.add_routine, the routines after it
AddRoutine(rts, key, value, source) ==
    LET at == { i \in DOMAIN rts : rts[i].key = key }
        routine == [key |-> key, value |-> value, source |-> source]
    IN  IF at = {} THEN Append(rts, routine)
        ELSE [i \in DOMAIN rts |-> IF i \in at THEN routine ELSE rts[i]]

\* _promote_patterns, the patterns after the pass
PromotedPatterns(patterns) ==
    [i \in DOMAIN patterns |->
        IF ShouldPromote(patterns[i]) THEN [patterns[i] EXCEPT !.promoted = TRUE]
        ELSE patterns[i]]

\* _promote_patterns, the routines after the add_routine calls of the pass, made in list order
RECURSIVE PromotedRoutines(_, _, _)
PromotedRoutines(patterns, i, rts) ==
    IF i > Len(patterns) THEN rts
    ELSE PromotedRoutines(patterns, i + 1,
             IF ShouldPromote(patterns[i])
             THEN AddRoutine(rts, patterns[i].type, patterns[i].description, "door_pattern")
             ELSE rts)

\* the add_routine calls made so far for each stored pattern, after the pass
CallsAfterPromotion(patterns, calls) ==
    [i \in DOMAIN patterns |->
        (IF i \in DOMAIN calls THEN calls[i] ELSE 0)
        + (IF ShouldPromote(patterns[i]) THEN 1 ELSE 0)]

\* update_patterns with the _promote_patterns it ends in: what it stores
UpdatePatternsStores(events) ==
    LET new_patterns == AnalyzeDoorEvents(events)
        merged == MergePatterns(door_patterns, new_patterns)
        new_routines == PromotedRoutines(merged, 1, routines)
    IN  /\ Len(merged) <= MaxPatterns
        /\ door_patterns' = PromotedPatterns(merged)
        /\ routineCalls' = CallsAfterPromotion(merged, routineCalls)
        /\ routines' = new_routines
        /\ profile_disk' = IF \E i \in DOMAIN merged : ShouldPromote(merged[i])
                           THEN ProfileDoc(learned_facts, new_routines)
                           ELSE profile_disk

\* update_patterns, called on its own
UpdatePatterns(events) ==
    LET new_patterns == AnalyzeDoorEvents(events)
    IN  /\ UpdatePatternsStores(events)
        /\ ret' = [op |-> "update_patterns", arg |-> events, val |-> new_patterns]
        /\ UNCHANGED <<now, learned_facts, nextFactId, graphVars, consVars, saveVars, gapVars, callVars, presenceVars>>

InitPatterns ==
    /\ InitOthers
    /\ InitProfileVars
    /\ InitGraphVars
    /\ InitPatternVars
    /\ InitConsVars
    /\ InitSaveVars

NextPatterns == \E events \in EventLists : UpdatePatterns(events)

SpecPatterns == InitPatterns /\ [][NextPatterns]_vars

(***************************************************************************)
(* Claims about the pattern detector, checked under SpecPatterns.          *)
(***************************************************************************)
\* the pattern stored at position i before the step is still there after it
SamePattern(i) ==
    /\ i \in DOMAIN door_patterns'
    /\ door_patterns'[i].type = door_patterns[i].type
    /\ door_patterns'[i].time_bucket = door_patterns[i].time_bucket

CallsBefore(i) == IF i \in DOMAIN routineCalls THEN routineCalls[i] ELSE 0

\* C8: over any sequence of update calls a stored pattern stays stored, its
\* promoted flag is never cleared, add_routine is called for it exactly in the
\* step that sets the flag and so at most once in all, and an update on the
\* same events as the one before makes no add_routine call at all.
C8_PromotedAtMostOnce ==
    [][ /\ \A i \in DOMAIN door_patterns :
              SamePattern(i) /\ (door_patterns[i].promoted => door_patterns'[i].promoted)
        /\ \A i \in DOMAIN door_patterns' :
              LET was == i \in DOMAIN door_patterns /\ door_patterns[i].promoted
              IN  /\ routineCalls'[i] - CallsBefore(i)
                        = IF ~was /\ door_patterns'[i].promoted THEN 1 ELSE 0
                  /\ routineCalls'[i] <= 1
                  /\ (routineCalls'[i] = 1) <=> door_patterns'[i].promoted
        /\ (ret.op = "update_patterns" /\ ret'.arg = ret.arg) => routineCalls' = routineCalls
      ]_vars

\* a pattern promoted at 6 observations and seen again with 5: its confidence is
\* back under the threshold, it is still promoted, with its one add_routine call
C8_Witness ==
    /\ ret.op = "update_patterns"
    /\ ret.arg = EventList(5, 0, 0, 0)
    /\ \E i \in DOMAIN door_patterns :
          /\ door_patterns[i].type = "weekday_activity"
          /\ door_patterns[i].promoted
          /\ door_patterns[i].confidence < CONFIDENCE_THRESHOLD
          /\ routineCalls[i] = 1
    /\ \E i \in DOMAIN routines : routines[i].key = "weekday_activity"

(***************************************************************************)
(* Memory consolidator (memory/consolidation.py).                          *)
(* Here now counts hours.  The oracle's reply is either an exception or a  *)
(* text, a sequence of tokens: a ``` fence, a bare word, or one JSON value *)
(* (an object, given as the record of the fields it has, or an array).     *)
(***************************************************************************)
MaxOracleCalls == 2
MaxHour == 24

CONSOLIDATION_INTERVAL_HOURS == 24
HOURS_PER_DAY == 24
MAX_GATHERED_FACTS == 15
MAX_GATHERED_PATTERNS == 10
MAX_GATHERED_CONVERSATIONS == 10
GATHER_PATTERN_CONFIDENCE == 5
MIN_TOTAL_ITEMS == 3

ConsTickHours == { 24 }

Fence == [t |-> "fence"]
Word(w) == [t |-> "word", w |-> w]
JsonObject(fields) == [t |-> "value", json |-> "object", value |-> fields]
JsonArray == [t |-> "value", json |-> "array", value |-> <<>>]

FullResult ==
    [personality_sketch |-> "sketch", current_situation |-> "None",
     communication_notes |-> "notes", themes |-> <<"theme">>,
     open_questions |-> <<"question">>]

OtherResult ==
    [personality_sketch |-> "sketch2", current_situation |-> "situation",
     communication_notes |-> "None", themes |-> <<"theme", "theme2">>,
     open_questions |-> <<>>]

OracleReplies ==
    { [kind |-> "error", text |-> <<>>] }
        \cup { [kind |-> "text", text |-> x] : x \in
                 { <<JsonObject(FullResult)>>,
                   <<Fence, Word("json"), JsonObject(OtherResult), Fence>>,
                   <<Fence, Word("JSON"), JsonObject(FullResult), Fence>>,
                   <<JsonObject([themes |-> <<"theme">>])>>,
                   <<JsonArray>>,
                   <<Word("Sorry")>>,
                   <<>> } }

\* s[:n]
Take(s, n) == SubSeq(s, 1, Min(n, Len(s)))

\* s[-n:]
TakeLast(s, n) == SubSeq(s, Max(1, Len(s) - n + 1), Len(s))

\* _gather_context lines 88-89
GatheredFacts(facts, t) ==
    LET result == Take(GetFactsResult(facts, t \div HOURS_PER_DAY, FADE_THRESHOLD),
                       MAX_GATHERED_FACTS)
    IN  [i \in DOMAIN result |-> result[i].fact.fact]

\* _gather_context lines 100-104
GatheredPatterns(patterns) ==
    LET strong == SelectSeq(patterns, LAMBDA p : p.confidence >= GATHER_PATTERN_CONFIDENCE)
        kept == Take(strong, MAX_GATHERED_PATTERNS)
    IN  [i \in DOMAIN kept |-> kept[i].description]

\* _gather_context lines 111-114
GatheredConversations(convos) ==
    SelectSeq(TakeLast(convos, MAX_GATHERED_CONVERSATIONS), LAMBDA summary : summary # "")

TotalItemsWithExtras(facts, patterns, convos, t) ==
    Len(GatheredFacts(facts, t)) + Len(GatheredPatterns(patterns))
        + Len(GatheredConversations(convos)) + Len(preferences) + Len(interests)

\* consolidate lines 133-137
TotalItems(facts, patterns, convos, t) ==
    Len(GatheredFacts(facts, t)) + Len(GatheredPatterns(patterns))
        + Len(GatheredConversations(convos))

\* str.split("```")[1]: the tokens between the first fence and the next one
BetweenFences(text) ==
    LET fences == { i \in DOMAIN text : text[i].t = "fence" }
        first == CHOOSE i \in fences : \A j \in fences : i <= j
        later == { i \in fences : i > first }
        next == IF later = {} THEN Len(text) + 1
                ELSE CHOOSE i \in later : \A j \in later : i <= j
    IN  SubSeq(text, first + 1, next - 1)

\* consolidate lines 197-200
StripFences(text) ==
    IF text # <<>> /\ Head(text).t = "fence"
    THEN LET inner == BetweenFences(text)
         IN  IF inner # <<>> /\ Head(inner).t = "word" /\ Head(inner).w = "json"
             THEN Tail(inner) ELSE inner
    ELSE text

\* json.loads: one JSON value and nothing else, or JSONDecodeError
JsonLoads(text) ==
    IF Len(text) = 1 /\ text[1].t = "value"
    THEN [ok |-> TRUE, json |-> text[1].json, value |-> text[1].value]
    ELSE [ok |-> FALSE, json |-> "none", value |-> <<>>]

\* dict.get(key, default)
JsonGet(obj, key, default) == IF key \in DOMAIN obj THEN obj[key] ELSE default

\* consolidate lines 205-210
UpdatedUnderstanding(obj, t) ==
    [last_consolidated |-> <<t>>,
     personality_sketch |-> JsonGet(obj, "personality_sketch", "None"),
     current_situation |-> JsonGet(obj, "current_situation", "None"),
     communication_notes |-> JsonGet(obj, "communication_notes", "None"),
     themes |-> JsonGet(obj, "themes", <<>>),
     open_questions |-> JsonGet(obj, "open_questions", <<>>)]

\* consolidate lines 167-221: what the try block makes of the oracle's reply
\* [ok, understanding]; every failure leaves the understanding as it was
ConsolidateResult(und, reply, t) ==
    LET parsed == IF reply.kind = "error"
                  THEN [ok |-> FALSE, json |-> "none", value |-> <<>>]
                  ELSE JsonLoads(StripFences(reply.text))
    IN  IF parsed.ok /\ parsed.json = "object"
        THEN [ok |-> TRUE, understanding |-> UpdatedUnderstanding(parsed.value, t)]
        ELSE [ok |-> FALSE, understanding |-> und]

\* consolidate, called as op
ConsolidateAs(op, api_key, reply) ==
    LET total_items == TotalItems(learned_facts, door_patterns, conversations, now)
        called == api_key /\ total_items >= MIN_TOTAL_ITEMS
        result == ConsolidateResult(understanding, reply, now)
        ok == called /\ result.ok
    IN  /\ oracleCalls < MaxOracleCalls
        /\ learned_facts' = IF api_key
                            THEN RefreshStatus(learned_facts, now \div HOURS_PER_DAY)
                            ELSE learned_facts
        /\ oracleCalls' = IF called THEN oracleCalls + 1 ELSE oracleCalls
        /\ understanding' = IF ok THEN result.understanding ELSE understanding
        /\ und_disk' = IF ok THEN result.understanding ELSE und_disk
        /\ ret' = [op |-> op, arg |-> [api_key |-> api_key, reply |-> reply], val |-> ok]
        /\ UNCHANGED <<now, routines, profile_disk, nextFactId, conversations,
                       preferences, interests, graphVars, patternVars, saveVars, gapVars, callVars, presenceVars>>

Consolidate(api_key, reply) == ConsolidateAs("consolidate", api_key, reply)

NeedsConsolidationLate(und, t) ==
    \/ und.last_consolidated = <<>>
    \/ t - und.last_consolidated[1] > CONSOLIDATION_INTERVAL_HOURS

\* needs_consolidation
NeedsConsolidation(und, t) ==
    \/ und.last_consolidated = <<>>
    \/ t - und.last_consolidated[1] >= CONSOLIDATION_INTERVAL_HOURS

\* maybe_consolidate
MaybeConsolidate(api_key, reply) ==
    IF NeedsConsolidation(understanding, now)
    THEN ConsolidateAs("maybe_consolidate", api_key, reply)
    ELSE /\ ret' = [op |-> "maybe_consolidate",
                    arg |-> [api_key |-> api_key, reply |-> reply], val |-> FALSE]
         /\ UNCHANGED <<now, profileVars, graphVars, patternVars, consVars, saveVars, gapVars, callVars, presenceVars>>

TickCons(hours) ==
    /\ now + hours <= MaxHour
    /\ now' = now + hours
    /\ ret' = [op |-> "tick", arg |-> <<>>, val |-> <<>>]
    /\ UNCHANGED <<profileVars, graphVars, patternVars, consVars, saveVars, gapVars, callVars, presenceVars>>

\* what the collaborators hold when the consolidator starts
ConsFactLists ==
    { <<>>,
      <<NewFact(1, <<"j">>, DefaultConfidence, 0, {})>>,
      <<NewFact(1, <<"j">>, DefaultConfidence, 0, {}), NewFact(2, <<"t">>, 14, 0, {})>>,
      <<NewFact(1, <<"j">>, DefaultConfidence, 0, {}), NewFact(2, <<"t">>, FADE_THRESHOLD, 0, {})>> }

ConsEventLists == { EventList(4, 0, 0, 0), EventList(5, 0, 0, 0), EventList(0, 0, 0, 6) }

ConsConversationLists == { <<>>, <<"", "s">>, <<"s", "s2", "s3">> }

ConsExtras == { <<>>, <<"x", "y", "z">> }

InitCons ==
    /\ InitOthers
    /\ InitGraphVars
    /\ InitSaveVars
    /\ learned_facts \in ConsFactLists
    /\ nextFactId = Len(learned_facts) + 1
    /\ \E events \in ConsEventLists :
          LET merged == MergePatterns(<<>>, AnalyzeDoorEvents(events))
          IN  /\ door_patterns = PromotedPatterns(merged)
              /\ routineCalls = CallsAfterPromotion(merged, <<>>)
              /\ routines = PromotedRoutines(merged, 1, <<>>)
    /\ profile_disk = ProfileDoc(learned_facts, routines)
    /\ understanding = DefaultUnderstanding
    /\ und_disk = DefaultUnderstanding
    /\ oracleCalls = 0
    /\ conversations \in ConsConversationLists
    /\ preferences \in ConsExtras
    /\ interests \in ConsExtras

NextCons ==
    \/ \E api_key \in BOOLEAN, reply \in OracleReplies : Consolidate(api_key, reply)
    \/ \E api_key \in BOOLEAN, reply \in OracleReplies : MaybeConsolidate(api_key, reply)
    \/ \E hours \in ConsTickHours : TickCons(hours)

SpecCons == InitCons /\ [][NextCons]_vars

(***************************************************************************)
(* Claims about the consolidator, checked under SpecCons.                  *)
(***************************************************************************)
\* the oracle was called: there was a key and enough items
OracleWasCalled == oracleCalls' = oracleCalls + 1

\* the reply is the structure asked for: a JSON object, bare or in a ``` fence,
\* holding the five fields
IsStructuredResult(reply) ==
    /\ reply.kind = "text"
    /\ \E i \in DOMAIN reply.text :
          /\ reply.text[i].t = "value"
          /\ reply.text[i].json = "object"
          /\ DOMAIN reply.text[i].value =
                 { "personality_sketch", "current_situation", "communication_notes",
                   "themes", "open_questions" }

\* C9: when consolidate's oracle call fails, or returns something other than
\* the five-field structure, consolidate returns failure and the Understanding,
\* last_consolidated included, is unchanged in memory and on disk.
C9_FailureLeavesUnderstanding ==
    [][ (ret'.op = "consolidate" /\ OracleWasCalled /\ ~IsStructuredResult(ret'.arg.reply))
            => /\ ret'.val = FALSE
               /\ understanding' = understanding
               /\ und_disk' = und_disk ]_vars

\* the number of items consolidate counts, from the stores themselves
CountedItems ==
    LET day == now \div HOURS_PER_DAY
        facts == { i \in DOMAIN learned_facts :
                     EffectiveConfidence(learned_facts[i], day) >= FADE_THRESHOLD }
        patterns == { i \in DOMAIN door_patterns :
                        door_patterns[i].confidence >= GATHER_PATTERN_CONFIDENCE }
        summaries == { i \in DOMAIN conversations :
                         i > Len(conversations) - MAX_GATHERED_CONVERSATIONS
                         /\ conversations[i] # "" }
    IN  Min(Cardinality(facts), MAX_GATHERED_FACTS)
        + Min(Cardinality(patterns), MAX_GATHERED_PATTERNS)
        + Cardinality(summaries)

\* C10: with fewer than 3 gathered facts, patterns and conversation summaries in
\* all, consolidate returns failure, makes no oracle call and leaves the
\* Understanding, in memory and on disk, as it was, whatever else is known.
C10_TooFewItemsNoCall ==
    [][ (ret'.op = "consolidate" /\ CountedItems < MIN_TOTAL_ITEMS)
            => /\ ret'.val = FALSE
               /\ oracleCalls' = oracleCalls
               /\ understanding' = understanding
               /\ und_disk' = und_disk ]_vars

\* two promoted patterns, no fact, no summary, three preferences and interests
\* and two routines: consolidate with a key came back failed without a call
C10_Witness ==
    /\ ret.op = "consolidate"
    /\ ret.arg.api_key
    /\ ret.val = FALSE
    /\ CountedItems = 2
    /\ Len(preferences) = 3 /\ Len(interests) = 3 /\ Len(routines) = 2
    /\ oracleCalls = 0
    /\ understanding = DefaultUnderstanding

(***************************************************************************)
(* A store's update, its _save step by step, a crash of the process and    *)
(* the _load of the next start.                                            *)
(***************************************************************************)
MaxEntries == 3

EntryValues == { "a", "b" }

\* an update of the in-memory document, and _save up to open(file, "w"),
\* which empties the file
SaveOpen(entry) ==
    /\ save_pc = "idle"
    /\ Len(mem_doc) < MaxEntries
    /\ mem_doc' = Append(mem_doc, entry)
    /\ file' = <<>>
    /\ save_pc' = "writing"
    /\ ret' = [op |-> "open", arg |-> entry, val |-> <<>>]
    /\ UNCHANGED <<now, prev_doc, store_kind, profileVars, graphVars, patternVars, consVars, gapVars, callVars, presenceVars>>

\* json.dump: the next piece of the document reaches the file
SaveWrite ==
    /\ save_pc = "writing"
    /\ Len(file) < Len(Serialize(mem_doc))
    /\ file' = SubSeq(Serialize(mem_doc), 1, Len(file) + 1)
    /\ ret' = [op |-> "write", arg |-> <<>>, val |-> <<>>]
    /\ UNCHANGED <<now, mem_doc, prev_doc, save_pc, store_kind,
                   profileVars, graphVars, patternVars, consVars, gapVars, callVars, presenceVars>>

\* the with block ends: the file is closed and _save returns
SaveClose ==
    /\ save_pc = "writing"
    /\ file = Serialize(mem_doc)
    /\ prev_doc' = mem_doc
    /\ save_pc' = "idle"
    /\ ret' = [op |-> "save", arg |-> <<>>, val |-> <<>>]
    /\ UNCHANGED <<now, file, mem_doc, store_kind, profileVars, graphVars, patternVars, consVars, gapVars, callVars, presenceVars>>

\* the process dies; the file keeps what had been written
Crash ==
    /\ save_pc # "down"
    /\ save_pc' = "down"
    /\ ret' = [op |-> "crash", arg |-> <<>>, val |-> save_pc]
    /\ UNCHANGED <<now, file, mem_doc, prev_doc, store_kind,
                   profileVars, graphVars, patternVars, consVars, gapVars, callVars, presenceVars>>

\* the next start: _load (the default document when the read fails), or
\* PresenceTracker._load_state (the failure is raised out of the constructor)
Load ==
    LET parsed == ParseFile(file)
    IN  /\ save_pc = "down"
        /\ IF parsed.ok
           THEN /\ mem_doc' = parsed.doc
                /\ save_pc' = "idle"
                /\ ret' = [op |-> "load", arg |-> <<>>, val |-> "loaded"]
           ELSE IF store_kind = "door_state"
           THEN /\ ret' = [op |-> "load", arg |-> <<>>, val |-> "raised"]
                /\ UNCHANGED <<mem_doc, save_pc>>
           ELSE /\ mem_doc' = <<>>
                /\ save_pc' = "idle"
                /\ ret' = [op |-> "load", arg |-> <<>>, val |-> "default"]
        /\ UNCHANGED <<now, file, prev_doc, store_kind,
                       profileVars, graphVars, patternVars, consVars, gapVars, callVars, presenceVars>>

InitSave ==
    /\ InitOthers
    /\ InitProfileVars
    /\ InitGraphVars
    /\ InitPatternVars
    /\ InitConsVars
    /\ mem_doc = <<>>
    /\ file = Serialize(<<>>)
    /\ prev_doc = <<>>
    /\ save_pc = "idle"
    /\ store_kind \in StoreKinds

NextSave ==
    \/ \E entry \in EntryValues : SaveOpen(entry)
    \/ SaveWrite
    \/ SaveClose
    \/ Crash
    \/ Load

SpecSave == InitSave /\ [][NextSave]_vars

(***************************************************************************)
(* Claim about the stores' files, checked under SpecSave.                  *)
(***************************************************************************)
\* C6: after a crash at any point of a save the file holds the complete previous
\* document or the complete new one, and the next load reads a document from
\* it: it never finds an empty or cut-off file.
C6_CrashLeavesWholeDocument ==
    /\ save_pc = "down" => file \in { Serialize(prev_doc), Serialize(mem_doc) }
    /\ ret.op = "load" => ret.val = "loaded"

\* C15: a load that finds the stored content unreadable (not a whole document)
\* raises nothing and leaves the component running on its empty default
\* document, whichever store it is.
C15_CorruptLoadsDefault ==
    (ret.op = "load" /\ ~ParseFile(file).ok)
        => /\ ret.val = "default"
           /\ mem_doc = <<>>
           /\ save_pc = "idle"

(***************************************************************************)
(* Knowledge gaps: the operations.  Here now counts days.                  *)
(***************************************************************************)
MaxGaps == 4
MaxGapDay == 60

GapTickDays == { 30 }
GapTopics == { "occupation", "favorite_food" }
\* the (priority, cooldown_days) pairs add_knowledge_gap is called with
GapSettings == { <<"high", 0>>, <<"low", 30>> }
GapIds == { "gap_name", "gap_work", "gap_schedule", "gap_u4", "gap_missing" }

\* uuid4 of the n-th gap
GapId(n) == <<"gap_u1", "gap_u2", "gap_u3", "gap_u4", "gap_u5", "gap_u6">>[n]

\* position of the first gap with that topic, 0 if none
TopicTrackedOpenOnly(gaps, topic) ==
    LET hits == { i \in DOMAIN gaps : gaps[i].topic = topic /\ ~gaps[i].filled }
    IN  IF hits = {} THEN 0 ELSE CHOOSE i \in hits : \A j \in hits : i <= j

TopicTracked(gaps, topic) ==
    LET hits == { i \in DOMAIN gaps : gaps[i].topic = topic }
    IN  IF hits = {} THEN 0 ELSE CHOOSE i \in hits : \A j \in hits : i <= j

\* position of the first gap with that id, 0 if none
GapWithId(gaps, gap_id) ==
    LET hits == { i \in DOMAIN gaps : gaps[i].id = gap_id }
    IN  IF hits = {} THEN 0 ELSE CHOOSE i \in hits : \A j \in hits : i <= j

GapEligibleWhileCooling(gap, t) == ~gap.filled

\* get_question_to_ask lines 340-353: the gap becomes a candidate
GapEligible(gap, t) ==
    /\ ~gap.filled
    /\ ~(/\ gap.asked
         /\ gap.asked_date # <<>>
         /\ t - gap.asked_date[1] < gap.cooldown_days)

\* priority_order.get(priority, 2)
PriorityRank(priority) ==
    IF priority = "high" THEN 0
    ELSE IF priority = "medium" THEN 1
    ELSE LOWEST_PRIORITY_RANK

QuestionKeyPriorityOnly(gap) == 2 * PriorityRank(gap.priority)

\* the sort key (priority rank, asked) as one number: False sorts before True
QuestionKey(gap) == 2 * PriorityRank(gap.priority) + (IF gap.asked THEN 1 ELSE 0)

\* list.sort(key): stable, lowest key first
RECURSIVE InsertAsc(_, _)
InsertAsc(sorted, x) ==
    IF sorted = <<>> THEN <<x>>
    ELSE IF x.key < Head(sorted).key THEN <<x>> \o sorted
    ELSE <<Head(sorted)>> \o InsertAsc(Tail(sorted), x)

RECURSIVE SortAsc(_)
SortAsc(s) ==
    IF s = <<>> THEN <<>>
    ELSE InsertAsc(SortAsc(SubSeq(s, 1, Len(s) - 1)), s[Len(s)])

\* get_question_to_ask: <<>> for None, <<gap>> for the gap returned
QuestionToAsk(gaps, t) ==
    LET candidates == SelectSeq(gaps, LAMBDA g : GapEligible(g, t))
        keyed == [i \in DOMAIN candidates |->
                     [key |-> QuestionKey(candidates[i]), gap |-> candidates[i]]]
    IN  IF candidates = <<>> THEN <<>> ELSE <<SortAsc(keyed)[1].gap>>

\* add_knowledge_gap
AddKnowledgeGap(topic, priority, cooldown_days) ==
    LET tracked == TopicTracked(knowledge_gaps, topic) # 0
    IN  /\ Len(knowledge_gaps) < MaxGaps \/ tracked
        /\ knowledge_gaps' =
              IF tracked THEN knowledge_gaps
              ELSE Append(knowledge_gaps,
                          Gap(GapId(Len(knowledge_gaps) + 1), topic, priority, cooldown_days))
        /\ profile_disk' = IF tracked THEN profile_disk
                           ELSE ProfileDoc(learned_facts, routines)
        /\ ret' = [op |-> "add_knowledge_gap",
                   arg |-> [topic |-> topic, priority |-> priority,
                            cooldown_days |-> cooldown_days],
                   val |-> <<>>]
        /\ UNCHANGED <<now, learned_facts, routines, nextFactId,
                       graphVars, patternVars, consVars, saveVars,
                       callVars, presenceVars>>

\* get_question_to_ask
GetQuestionToAsk ==
    /\ ret' = [op |-> "get_question_to_ask", arg |-> <<>>,
               val |-> QuestionToAsk(knowledge_gaps, now)]
    /\ UNCHANGED <<now, profileVars, graphVars, patternVars, consVars, saveVars, gapVars, callVars, presenceVars>>

\* mark_gap_asked
MarkGapAsked(gap_id) ==
    LET i == GapWithId(knowledge_gaps, gap_id)
    IN  /\ knowledge_gaps' =
              IF i = 0 THEN knowledge_gaps
              ELSE [knowledge_gaps EXCEPT ![i].asked = TRUE, ![i].asked_date = <<now>>]
        /\ profile_disk' = IF i = 0 THEN profile_disk
                           ELSE ProfileDoc(learned_facts, routines)
        /\ ret' = [op |-> "mark_gap_asked", arg |-> [gap_id |-> gap_id], val |-> <<>>]
        /\ UNCHANGED <<now, learned_facts, routines, nextFactId,
                       graphVars, patternVars, consVars, saveVars,
                       callVars, presenceVars>>

\* fill_knowledge_gap
FillKnowledgeGap(topic) ==
    LET i == TopicTracked(knowledge_gaps, topic)
    IN  /\ knowledge_gaps' =
              IF i = 0 THEN knowledge_gaps
              ELSE [knowledge_gaps EXCEPT ![i].filled = TRUE]
        /\ profile_disk' = IF i = 0 THEN profile_disk
                           ELSE ProfileDoc(learned_facts, routines)
        /\ ret' = [op |-> "fill_knowledge_gap", arg |-> [topic |-> topic], val |-> <<>>]
        /\ UNCHANGED <<now, learned_facts, routines, nextFactId,
                       graphVars, patternVars, consVars, saveVars,
                       callVars, presenceVars>>

TickGaps(days) ==
    /\ now + days <= MaxGapDay
    /\ now' = now + days
    /\ ret' = [op |-> "tick", arg |-> <<>>, val |-> <<>>]
    /\ UNCHANGED <<profileVars, graphVars, patternVars, consVars, saveVars, gapVars, callVars, presenceVars>>

InitGaps ==
    /\ InitOthers
    /\ InitProfileVars
    /\ InitGraphVars
    /\ InitPatternVars
    /\ InitConsVars
    /\ InitSaveVars

NextGaps ==
    \/ \E topic \in GapTopics, setting \in GapSettings :
           AddKnowledgeGap(topic, setting[1], setting[2])
    \/ GetQuestionToAsk
    \/ \E gap_id \in GapIds : MarkGapAsked(gap_id)
    \/ \E topic \in GapTopics \cup { "preferred_name", "no_such_topic" } : FillKnowledgeGap(topic)
    \/ \E days \in GapTickDays : TickGaps(days)

SpecGaps == InitGaps /\ [][NextGaps]_vars

(***************************************************************************)
(* Claims about the knowledge gaps, checked under SpecGaps.                *)
(***************************************************************************)
\* positions of the stored gaps that are not filled and not inside their cooldown at day t
EligibleGaps(t) ==
    { i \in DOMAIN knowledge_gaps :
        /\ ~knowledge_gaps[i].filled
        /\ \/ ~knowledge_gaps[i].asked
           \/ t - knowledge_gaps[i].asked_date[1] >= knowledge_gaps[i].cooldown_days }

ClaimRank(priority) == CASE priority = "high" -> 0 [] priority = "medium" -> 1 [] priority = "low" -> 2

\* C11: a gap returned by get_question_to_ask is a stored gap that is not filled
\* and whose cooldown_days have elapsed since it was last marked asked; a gap
\* stays stored under its topic and, once filled, stays filled, so it is never
\* returned again.
C11_FilledOrCoolingNeverAsked ==
    [][ /\ (ret'.op = "get_question_to_ask" /\ ret'.val # <<>>)
            => \E i \in EligibleGaps(now) : knowledge_gaps[i] = ret'.val[1]
        /\ \A i \in DOMAIN knowledge_gaps :
              /\ i \in DOMAIN knowledge_gaps'
              /\ knowledge_gaps'[i].topic = knowledge_gaps[i].topic
              /\ knowledge_gaps[i].filled => knowledge_gaps'[i].filled
      ]_vars

\* the high-priority gap is filled, the medium one was asked 30 days ago and is
\* still cooling (45 days): the low-priority gap is the one returned
C11_Witness ==
    /\ ret.op = "get_question_to_ask"
    /\ ret.val # <<>>
    /\ ret.val[1].topic = "occupation"
    /\ knowledge_gaps[1].filled
    /\ knowledge_gaps[3].asked /\ now - knowledge_gaps[3].asked_date[1] = 30
    /\ ~knowledge_gaps[3].filled

\* C12: get_question_to_ask returns nothing exactly when no gap is eligible;
\* otherwise it returns an eligible gap, no eligible gap has a strictly higher
\* priority, and if an eligible gap of the same priority was never asked then
\* the returned one was never asked either.
C12_HighestPriorityNeverAskedFirst ==
    ret.op = "get_question_to_ask" =>
        /\ ret.val = <<>> <=> EligibleGaps(now) = {}
        /\ ret.val # <<>> =>
              \E i \in EligibleGaps(now) :
                  /\ knowledge_gaps[i] = ret.val[1]
                  /\ \A j \in EligibleGaps(now) :
                        /\ ClaimRank(knowledge_gaps[j].priority)
                               >= ClaimRank(knowledge_gaps[i].priority)
                        /\ (/\ knowledge_gaps[j].priority = knowledge_gaps[i].priority
                            /\ ~knowledge_gaps[j].asked) => ~knowledge_gaps[i].asked

\* two eligible high-priority gaps, the first in the list asked before and past
\* its cooldown, the later one never asked: the later one is returned
C12_Witness ==
    /\ ret.op = "get_question_to_ask"
    /\ Len(knowledge_gaps) = 4
    /\ knowledge_gaps[1].asked /\ 1 \in EligibleGaps(now)
    /\ knowledge_gaps[4].priority = "high" /\ ~knowledge_gaps[4].asked /\ 4 \in EligibleGaps(now)
    /\ ret.val = <<knowledge_gaps[4]>>

NoSharedTopic(gaps) ==
    \A i, j \in DOMAIN gaps : gaps[i].topic = gaps[j].topic => i = j

\* C13: from the default profile on, no two knowledge gaps share a topic, and
\* add_knowledge_gap for a topic already tracked, asked or filled or neither,
\* leaves the gap list as it was.
C13_OneGapPerTopic ==
    /\ NoSharedTopic(knowledge_gaps)
    /\ [][ /\ NoSharedTopic(knowledge_gaps')
           /\ (/\ ret'.op = "add_knowledge_gap"
               /\ \E i \in DOMAIN knowledge_gaps : knowledge_gaps[i].topic = ret'.arg.topic)
                 => knowledge_gaps' = knowledge_gaps
         ]_vars

\* add_knowledge_gap("occupation") after that default gap was asked and filled:
\* still the three default gaps
C13_Witness ==
    /\ ret.op = "add_knowledge_gap"
    /\ ret.arg.topic = "occupation"
    /\ Len(knowledge_gaps) = 3
    /\ knowledge_gaps[2].topic = "occupation"
    /\ knowledge_gaps[2].asked /\ knowledge_gaps[2].filled

(***************************************************************************)
(* The conversation store.  store_conversation summarizes a conversation   *)
(* with the oracle, appends the summary, saves, and hands facts_learned to *)
(* the profile and people_mentioned to the relationship graph.  The        *)
(* oracle's reply is an input: the call fails (no client, fewer than two   *)
(* messages, an exception, a text that is not JSON) or it is a JSON object *)
(* with the fields below.  `conversations` keeps the summary text of each  *)
(* stored entry; topics and mood are not tracked.  _save drops entries     *)
(* older than 30 days: the clock of this specification stays below that,   *)
(* so no entry is dropped here.                                            *)
(***************************************************************************)
MaxConversations == 2
MaxConvDay == 16

CONVERSATION_FACT_CONFIDENCE == 49

ConvTickDays == { 8 }

MentionedPerson(name, relationship) ==
    [name |-> name, relationship |-> relationship, details |-> <<>>,
     visiting |-> FALSE, visit_time |-> NoneVal]

\* the oracle's answers to the summarize prompt
SummarizerReplies ==
    { [kind |-> "error"],
      [kind |-> "json", summary |-> "s", facts_learned |-> <<>>, people_mentioned |-> <<>>],
      [kind |-> "json", summary |-> "s", facts_learned |-> << <<"j">> >>,
       people_mentioned |-> << MentionedPerson(<<"m", "a">>, "friend") >>],
      [kind |-> "json", summary |-> "", facts_learned |-> << <<"j">>, <<"t">> >>,
       people_mentioned |-> <<>>],
      [kind |-> "json", summary |-> "s2", facts_learned |-> <<>>,
       people_mentioned |-> << MentionedPerson(<<"m", "a">>, "acquaintance"),
                               MentionedPerson(<<"m", "a", " ", "x">>, "friend") >>] }

\* dict.get(key, default) on a record
DictGet(d, key, default) == IF key \in DOMAIN d THEN d[key] ELSE default

\* summarize_conversation: <<>> for None, <<summary dict>> otherwise
SummarizeConversation(reply, t) ==
    IF reply.kind = "error" THEN <<>>
    ELSE << [date |-> t,
             summary |-> DictGet(reply, "summary", ""),
             facts_learned |-> DictGet(reply, "facts_learned", <<>>)] >>

\* store_conversation lines 159-166: add_fact for each learned fact, in order;
\* st is (facts, next_id)
RECURSIVE WithFactsLearned(_, _, _, _)
WithFactsLearned(st, texts, t, reply) ==
    IF texts = <<>> THEN st
    ELSE LET existing == FindSimilarFact(st.facts, Head(texts))
             after ==
                 IF existing # 0
                 THEN [facts |-> [st.facts EXCEPT ![existing] = ReinforceFact(@, t)],
                       next_id |-> st.next_id]
                 ELSE [facts |-> AddNewFact(st.facts, st.next_id, Head(texts),
                                            CONVERSATION_FACT_CONFIDENCE, t, reply),
                       next_id |-> st.next_id + 1]
         IN  WithFactsLearned(after, Tail(texts), t, reply)

\* process_mention on the graph g = (people, pending), as store_conversation calls it
AfterMention(g, person, t) ==
    LET name == DictGet(person, "name", <<>>)
        relationship_type == DictGet(person, "relationship", "acquaintance")
        details == DictGet(person, "details", <<>>)
        visit == [visiting |-> DictGet(person, "visiting", FALSE),
                  visit_time |-> DictGet(person, "visit_time", NoneVal)]
        matches == FindByName(g.people, name, DEFAULT_THRESHOLD)
        resolved == AutoResolve(g.people, matches, relationship_type, t)
    IN  IF matches = <<>>
        THEN [g EXCEPT !.people = WithCreated(@, name, relationship_type, details, visit, t)]
        ELSE IF Len(matches) = 1
        THEN [g EXCEPT !.people = WithUpdate(@, matches[1].idx, relationship_type,
                                             details, visit, t)]
        ELSE IF resolved # 0
        THEN [g EXCEPT !.people = WithUpdate(@, resolved, relationship_type,
                                             details, visit, t)]
        ELSE [g EXCEPT !.pending = WithPendingClarification(@, g.people, name, matches, t)]

\* store_conversation lines 168-180: process_mention for each person, in order
RECURSIVE WithPeopleMentioned(_, _, _)
WithPeopleMentioned(g, persons, t) ==
    IF persons = <<>> THEN g
    ELSE WithPeopleMentioned(AfterMention(g, Head(persons), t), Tail(persons), t)

StoreConversation(reply, classifier) ==
    LET summary == SummarizeConversation(reply, now)
    IN  /\ IF summary = <<>>
           THEN /\ ret' = [op |-> "store_conversation", arg |-> reply, val |-> "none"]
                /\ UNCHANGED <<profileVars, graphVars, consVars>>
           ELSE LET facts_learned == DictGet(summary[1], "facts_learned", <<>>)
                    people_mentioned == DictGet(summary[1], "people_mentioned", <<>>)
                    st == WithFactsLearned([facts |-> learned_facts, next_id |-> nextFactId],
                                           facts_learned, now, classifier)
                    g == WithPeopleMentioned([people |-> people, pending |-> pending],
                                             people_mentioned, now)
                IN  /\ Len(conversations) < MaxConversations
                    /\ st.next_id <= MaxFactIds + 1
                    /\ \A i \in DOMAIN st.facts :
                          st.facts[i].reinforcement_count <= MaxReinforce
                    /\ WithinGraphBounds(g.people)
                    /\ conversations' = Append(conversations, summary[1].summary)
                    /\ learned_facts' = st.facts
                    /\ nextFactId' = st.next_id
                    /\ profile_disk' = IF facts_learned = <<>> THEN profile_disk
                                       ELSE ProfileDoc(st.facts, routines)
                    /\ people' = g.people
                    /\ pending' = g.pending
                    /\ ret' = [op |-> "store_conversation", arg |-> reply, val |-> "stored"]
                    /\ UNCHANGED <<routines, understanding, und_disk, oracleCalls,
                                   preferences, interests>>
        /\ UNCHANGED <<now, patternVars, saveVars, gapVars, callVars, presenceVars>>

TickConv(days) ==
    /\ now + days <= MaxConvDay
    /\ now' = now + days
    /\ ret' = [op |-> "tick", arg |-> <<>>, val |-> <<>>]
    /\ UNCHANGED <<profileVars, graphVars, patternVars, consVars, saveVars, gapVars, callVars, presenceVars>>

InitConv ==
    /\ InitOthers
    /\ InitProfileVars
    /\ InitGraphVars
    /\ InitPatternVars
    /\ InitConsVars
    /\ InitSaveVars

NextConv ==
    \/ \E reply \in SummarizerReplies,
          classifier \in { c \in ClassifierReplies : c.text \in { <<>>, <<"j">> } } :
           StoreConversation(reply, classifier)
    \/ \E name \in { <<"m", "a">>, <<"M", "a">> } :
           ProcessMention(name, "friend", <<>>, [visiting |-> FALSE, visit_time |-> NoneVal])
    \/ \E days \in ConvTickDays : TickConv(days)

SpecConv == InitConv /\ [][NextConv]_vars

(***************************************************************************)
(* Claims about the conversation store, checked under SpecConv.            *)
(***************************************************************************)
\* the person named `name` was created or updated at time t, or queued for a
\* clarification
ReachedGraph(ppl, queue, name, t) ==
    \/ \E k \in DOMAIN ppl :
          /\ Lower(ppl[k].name) = Lower(name)
          /\ ppl[k].last_mentioned = t
    \/ PendingFor(queue, name) # {}

\* C16: when store_conversation has processed a summarizer result, every person
\* under the result's people_mentioned has been handed to process_mention, so
\* the graph holds that person, created or updated by this call.
C16_MentionedPeopleReachGraph ==
    [][(ret'.op = "store_conversation" /\ ret'.val = "stored")
          => \A i \in DOMAIN ret'.arg.people_mentioned :
                ReachedGraph(people', pending', ret'.arg.people_mentioned[i].name, now')
      ]_vars

(***************************************************************************)
(* The resident profile with confidence arguments outside [0, 1]: add_fact *)
(* takes any float.  -35 is -0.5 and 105 is 1.5 in units of 1/70.          *)
(***************************************************************************)
OutOfRangeConfidenceArgs == { -35, DefaultConfidence, 105 }

NextRange ==
    \/ \E text \in FactTexts, confidence \in OutOfRangeConfidenceArgs,
          reply \in ClassifierReplies :
           AddFact(text, confidence, reply)
    \/ \E k \in 1..MaxFactIds, r \in 1..MaxFactIds : ResolveContradiction(k, r)
    \/ \E days \in TickDays : TickProfile(days)

SpecRange == InitProfile /\ [][NextRange]_vars

\* C17: every stored fact's base confidence lies in [0, 1], whatever confidence is
\* passed to add_fact and after any reinforcements and contradiction resolutions.
C17_ConfidenceInUnitInterval ==
    \A i \in DOMAIN learned_facts :
        /\ learned_facts[i].confidence >= 0
        /\ learned_facts[i].confidence <= MAX_CONFIDENCE

(***************************************************************************)
(* The resident profile holding three facts.  The initial states are the   *)
(* profiles three add_fact calls on day 0 leave, for the classifier's      *)
(* replies and two confidences, so that a resolution has a third fact to   *)
(* leave alone and a pruning has facts on both sides of the threshold.     *)
(***************************************************************************)
CONTEXT_CLEAN_FACTS == 5
CONTEXT_CONFLICTED_FACTS == 3
CONTEXT_PREFERENCES == 3
CONTEXT_INTERESTS == 5
CONTEXT_ROUTINES == 3

HighConfidence == 63
ThirdFactText == <<"j", "t">>
NoSuchFactId == 4

\* the classifier fails or names the fact `text`
ResolveReplies(text) == { c \in ClassifierReplies : c.text \in { <<>>, text } }

ThreeFacts(confidence, reply2, reply3) ==
    AddNewFact(
        AddNewFact(
            AddNewFact(<<>>, 1, <<"j">>, confidence, 0, [kind |-> "error", text |-> <<>>]),
            2, <<"t">>, DefaultConfidence, 0, reply2),
        3, ThirdFactText, confidence, 0, reply3)

\* get_context, the lines of the returned text (<<>> for None)
ContextLines(facts, t) ==
    LET found == GetFactsResult(facts, t, FADE_THRESHOLD)
        clean_facts == SelectSeq(found, LAMBDA e : e.fact.contradicts = {})
        conflicted_facts == SelectSeq(found, LAMBDA e : e.fact.contradicts # {})
        Texts(s) == [i \in DOMAIN s |-> s[i].fact.fact]
        Line(label, items) == IF items = <<>> THEN <<>>
                              ELSE << [label |-> label, items |-> items] >>
    IN  Line("What you know", Texts(Take(clean_facts, CONTEXT_CLEAN_FACTS)))
          \o Line("Uncertain", Texts(Take(conflicted_facts, CONTEXT_CONFLICTED_FACTS)))
          \o Line("Preferences", Take(preferences, CONTEXT_PREFERENCES))
          \o Line("Interests", Take(interests, CONTEXT_INTERESTS))
          \o Line("Routines", Take(routines, CONTEXT_ROUTINES))

\* get_context: the get_facts call inside it refreshes the stored statuses
GetContext ==
    /\ learned_facts' = RefreshStatus(learned_facts, now)
    /\ ret' = [op |-> "get_context", arg |-> <<>>, val |-> ContextLines(learned_facts, now)]
    /\ UNCHANGED <<now, routines, profile_disk, nextFactId,
                   graphVars, patternVars, consVars, saveVars, gapVars, callVars, presenceVars>>

InitResolve ==
    /\ InitOthers
    /\ InitGraphVars
    /\ InitPatternVars
    /\ InitConsVars
    /\ InitSaveVars
    /\ routines = <<>>
    /\ \E confidence \in { DefaultConfidence, HighConfidence },
          reply2 \in ResolveReplies(<<"j">>), reply3 \in ResolveReplies(<<"t">>) :
           learned_facts = ThreeFacts(confidence, reply2, reply3)
    /\ nextFactId = NoSuchFactId
    /\ profile_disk = ProfileDoc(learned_facts, routines)

NextResolve ==
    \/ AddFact(<<"j">>, DefaultConfidence, [kind |-> "error", text |-> <<>>])
    \/ GetFacts(FADE_THRESHOLD)
    \/ GetContext
    \/ PruneForgotten
    \/ \E k \in 1..NoSuchFactId, r \in 1..NoSuchFactId : ResolveContradiction(k, r)
    \/ \E days \in TickDays : TickProfile(days)

SpecResolve == InitResolve /\ [][NextResolve]_vars

(***************************************************************************)
(* Claims about resolve_contradiction, prune_forgotten and the reads,      *)
(* checked under SpecResolve.                                              *)
(***************************************************************************)
HasId(facts, id) == \E i \in DOMAIN facts : facts[i].id = id
FactWithId(facts, id) == facts[CHOOSE i \in DOMAIN facts : facts[i].id = id]

\* C18: resolve_contradiction(keep_id, remove_id) with two distinct stored ids
\* deletes the remove fact, takes remove_id out of the keep fact's contradicts,
\* sets the keep fact's confidence to min(previous + 0.2, 1.0) and leaves every
\* other fact's text and confidence as they were.
C18_ResolveKeepsAndRemoves ==
    [][(/\ ret'.op = "resolve_contradiction"
        /\ ret'.arg[1] # ret'.arg[2]
        /\ HasId(learned_facts, ret'.arg[1])
        /\ HasId(learned_facts, ret'.arg[2]))
         => LET keep_id == ret'.arg[1]
                remove_id == ret'.arg[2]
            IN  /\ ~HasId(learned_facts', remove_id)
                /\ HasId(learned_facts', keep_id)
                /\ remove_id \notin FactWithId(learned_facts', keep_id).contradicts
                /\ FactWithId(learned_facts', keep_id).confidence =
                       Min(FactWithId(learned_facts, keep_id).confidence + RESOLUTION_BOOST,
                           MAX_CONFIDENCE)
                /\ Len(learned_facts') = Len(learned_facts) - 1
                /\ \A i \in DOMAIN learned_facts :
                      learned_facts[i].id \notin { keep_id, remove_id }
                        => /\ HasId(learned_facts', learned_facts[i].id)
                           /\ FactWithId(learned_facts', learned_facts[i].id).fact =
                                  learned_facts[i].fact
                           /\ FactWithId(learned_facts', learned_facts[i].id).confidence =
                                  learned_facts[i].confidence
      ]_vars

\* a resolution that hit the cap, with a third fact left in the store
C18_Witness ==
    /\ ret.op = "resolve_contradiction" /\ ret.val = TRUE
    /\ Len(learned_facts) = 2
    /\ FactWithId(learned_facts, ret.arg[1]).confidence = MAX_CONFIDENCE
    /\ FactWithId(learned_facts, ret.arg[1]).reinforcement_count = 0
    /\ FactWithId(learned_facts, ret.arg[1]).contradicts # {}

\* C19: resolve_contradiction with a keep_id or remove_id that matches no stored
\* fact, or with keep_id equal to remove_id, raises nothing and leaves the fact
\* list, every field of every fact and the persisted document unchanged.
C19_ResolveUnknownIdsNoOp ==
    [][(/\ ret'.op = "resolve_contradiction"
        /\ \/ ~HasId(learned_facts, ret'.arg[1])
           \/ ~HasId(learned_facts, ret'.arg[2])
           \/ ret'.arg[1] = ret'.arg[2])
         => /\ ret'.val = FALSE
            /\ learned_facts' = learned_facts
            /\ profile_disk' = profile_disk
      ]_vars

\* a call with the same stored id twice, while memory is ahead of the file
C19_Witness ==
    /\ ret.op = "resolve_contradiction" /\ ret.val = FALSE
    /\ ret.arg[1] = ret.arg[2]
    /\ HasId(learned_facts, ret.arg[1])
    /\ Len(learned_facts) = 3
    /\ profile_disk # ProfileDoc(learned_facts, routines)

\* C20: prune_forgotten removes exactly the facts whose effective confidence is
\* below the forget threshold at that moment, leaves every other fact in place
\* and returns the number removed; get_facts and get_context never change the
\* number of stored facts.
C20_PruneExactlyForgotten ==
    [][/\ ret'.op = "prune_forgotten"
          => /\ learned_facts' =
                    SelectSeq(learned_facts,
                              LAMBDA f : EffectiveConfidence(f, now) >= FORGET_THRESHOLD)
             /\ ret'.val = Len(learned_facts) - Len(learned_facts')
       /\ ret'.op \in { "get_facts", "get_context" }
          => Len(learned_facts') = Len(learned_facts)
      ]_vars

\* a pruning that removed one fact and kept two
C20_Witness ==
    /\ ret.op = "prune_forgotten" /\ ret.val = 1
    /\ Len(learned_facts) = 2

(***************************************************************************)
(* find_by_name called on its own, with the default threshold 0.7 and with *)
(* a stricter one (0.9 is 756 in units of 1/840), on graphs built by       *)
(* add_person.                                                             *)
(***************************************************************************)
StrictThreshold == 756
ThresholdArgs == { DEFAULT_THRESHOLD, StrictThreshold }

\* find_by_name: reads only; the result is the sorted list of (score, person, matched_on)
FindByNameCall(name, threshold) ==
    /\ ret' = [op |-> "find_by_name", arg |-> [name |-> name, threshold |-> threshold],
               val |-> FindByName(people, name, threshold)]
    /\ UNCHANGED <<now, profileVars, graphVars, patternVars, consVars, saveVars, gapVars, callVars, presenceVars>>

NextFind ==
    \/ \E name \in PersonNames, relationship_type \in RelationshipTypes :
           AddPerson(name, relationship_type)
    \/ \E name \in PersonNames, threshold \in ThresholdArgs : FindByNameCall(name, threshold)
    \/ \E days \in GraphTickDays : TickGraph(days)

SpecFind == InitGraph /\ [][NextFind]_vars

\* C22: every match find_by_name returns has a score at or above the threshold,
\* the matches are in non-increasing score order, and no removed person is
\* among them.
C22_MatchesAtOrAboveThreshold ==
    ret.op = "find_by_name" =>
        /\ \A i \in DOMAIN ret.val :
              /\ ret.val[i].key >= ret.arg.threshold
              /\ people[ret.val[i].idx].status # "removed"
        /\ \A i, j \in DOMAIN ret.val : i < j => ret.val[i].key >= ret.val[j].key

(***************************************************************************)
(* Further claims about the relationship graph, checked under SpecGraph.   *)
(***************************************************************************)
NoVisit == [visiting |-> FALSE, visit_time |-> NoneVal]

\* the graph holds one person, just created by a mention without details
JustCreated ==
    /\ ret.op = "process_mention" /\ ret.val.action = "created"
    /\ Len(people) = 1
    /\ people[1].details = <<>>
    /\ people[1].mention_count = 1

\* C23: on an empty graph process_mention returns 'created' and stores exactly
\* one person; an immediately following process_mention with the same name and
\* details [d] returns 'updated' with the same key, creates no second person and
\* leaves the person with exactly the one detail d and mention_count 2.
C23_CreateThenUpdate ==
    [][/\ (people = <<>> /\ ret'.op = "process_mention")
          => /\ ret'.val.action = "created"
             /\ Len(people') = 1
       /\ \A d \in { "vinyl" } :
             (JustCreated /\ ProcessMention(ret.arg.name, NoneVal, <<d>>, NoVisit))
                => /\ ret'.val.action = "updated"
                   /\ ret'.val.key = ret.val.key
                   /\ Len(people') = 1
                   /\ people'[1].key = ret.val.key
                   /\ Len(people'[1].details) = 1
                   /\ people'[1].details[1].fact = d
                   /\ people'[1].mention_count = 2
      ]_vars

\* the second mention has been processed: one person, one detail, two mentions
C23_Witness ==
    /\ ret.op = "process_mention" /\ ret.val.action = "updated"
    /\ Len(people) = 1
    /\ people[1].key = ret.val.key
    /\ people[1].mention_count = 2
    /\ Len(people[1].details) = 1
    /\ people[1].details[1].fact = "vinyl"
    /\ people[1].details[1].confidence = DETAIL_CONFIDENCE
    /\ people[1].relationship_type = "friend"
    /\ now = 0

(***************************************************************************)
(* Mentions with an empty name: store_conversation passes                  *)
(* person.get("name", "") to process_mention, so "" is a name the graph    *)
(* is called with.                                                         *)
(***************************************************************************)
NextEmptyName ==
    \/ \E name \in { EmptyName, <<"m", "a">> }, m \in MentionArgs :
           ProcessMention(name, m.relationship_type, m.details,
                          [visiting |-> m.visiting, visit_time |-> m.visit_time])
    \/ \E days \in GraphTickDays : TickGraph(days)

SpecEmptyName == InitGraph /\ [][NextEmptyName]_vars

\* C24: a process_mention whose name is empty is rejected: it creates no person
\* and changes no stored person's mention count, details, relationship type or
\* expected visits.
C24_EmptyNameRejected ==
    [][(ret'.op = "process_mention" /\ ret'.arg.name = EmptyName)
          => /\ Len(people') = Len(people)
             /\ \A i \in DOMAIN people :
                   /\ people'[i].mention_count = people[i].mention_count
                   /\ people'[i].details = people[i].details
                   /\ people'[i].relationship_type = people[i].relationship_type
                   /\ people'[i].expected_visits = people[i].expected_visits
      ]_vars

(***************************************************************************)
(* The consolidator's schedule, with the clock in steps of 12 hours so     *)
(* that a maybe_consolidate call falls before, exactly at and after the    *)
(* 24 hours.  The collaborators hold enough items for a call, or none.     *)
(***************************************************************************)
MaxFreshHour == 36
FreshTickHours == { 12 }
FreshReplies ==
    { [kind |-> "error", text |-> <<>>],
      [kind |-> "text", text |-> <<JsonObject(FullResult)>>],
      [kind |-> "text", text |-> <<JsonObject(OtherResult)>>] }

TickFresh(hours) ==
    /\ now + hours <= MaxFreshHour
    /\ now' = now + hours
    /\ ret' = [op |-> "tick", arg |-> <<>>, val |-> <<>>]
    /\ UNCHANGED <<profileVars, graphVars, patternVars, consVars, saveVars, gapVars, callVars, presenceVars>>

InitFresh ==
    /\ InitOthers
    /\ InitProfileVars
    /\ InitGraphVars
    /\ InitPatternVars
    /\ InitSaveVars
    /\ understanding = DefaultUnderstanding
    /\ und_disk = DefaultUnderstanding
    /\ oracleCalls = 0
    /\ conversations \in { <<>>, <<"s", "s2", "s3">> }
    /\ preferences = <<>>
    /\ interests = <<>>

NextFresh ==
    \/ \E api_key \in BOOLEAN, reply \in FreshReplies : Consolidate(api_key, reply)
    \/ \E api_key \in BOOLEAN, reply \in FreshReplies : MaybeConsolidate(api_key, reply)
    \/ \E hours \in FreshTickHours : TickFresh(hours)

SpecFresh == InitFresh /\ [][NextFresh]_vars

\* hours since the last successful consolidation; -1 when there was none
HoursSinceConsolidated ==
    IF understanding.last_consolidated = <<>> THEN -1
    ELSE now - understanding.last_consolidated[1]

\* maybe_consolidate went through consolidate: with a key and enough items the
\* oracle was called, and a success stamped the Understanding with the time
RanConsolidate ==
    /\ (ret'.arg.api_key /\ CountedItems >= MIN_TOTAL_ITEMS) <=> OracleWasCalled
    /\ ret'.val = TRUE => /\ OracleWasCalled
                           /\ understanding'.last_consolidated = <<now>>
                           /\ und_disk' = understanding'

SkippedConsolidate ==
    /\ ret'.val = FALSE
    /\ oracleCalls' = oracleCalls
    /\ understanding' = understanding
    /\ und_disk' = und_disk

\* C25 as stated: after a successful consolidation at time t, maybe_consolidate
\* makes no oracle call and leaves the Understanding unchanged while the time
\* since t has not exceeded 24 hours, and runs consolidate on the first call
\* after it has; before any successful consolidation every call runs consolidate.
C25_FreshUntilExceeded ==
    [][ret'.op = "maybe_consolidate"
          => IF HoursSinceConsolidated >= 0
                /\ HoursSinceConsolidated <= CONSOLIDATION_INTERVAL_HOURS
             THEN SkippedConsolidate
             ELSE RanConsolidate
      ]_vars

\* C25 amended: maybe_consolidate makes no oracle call and leaves the
\* Understanding unchanged while fewer than 24 hours have passed since the last
\* successful consolidation, and runs consolidate on every call once 24 hours
\* or more have passed, and on every call before any successful consolidation.
C25_FreshForInterval ==
    [][ret'.op = "maybe_consolidate"
          => IF HoursSinceConsolidated >= 0
                /\ HoursSinceConsolidated < CONSOLIDATION_INTERVAL_HOURS
             THEN SkippedConsolidate
             ELSE RanConsolidate
      ]_vars

\* a call with a key, enough items and a good reply, 12 hours after a success:
\* skipped
C25_Witness ==
    /\ ret.op = "maybe_consolidate" /\ ret.val = FALSE
    /\ ret.arg.api_key /\ ret.arg.reply = [kind |-> "text", text |-> <<JsonObject(OtherResult)>>]
    /\ CountedItems >= MIN_TOTAL_ITEMS
    /\ HoursSinceConsolidated = 12
    /\ oracleCalls = 1
    /\ understanding.personality_sketch = "sketch"

(***************************************************************************)
(* The pattern detector fed with growing runs of weekday-morning events:   *)
(* five at 08:05, then a sixth at 08:05 (the mean stays) or at 08:50 (the  *)
(* mean moves to 08:12), runs at 08:50 only, and a run under five.         *)
(***************************************************************************)
MorningEventLists ==
    { EventList(4, 0, 0, 0), EventList(5, 0, 0, 0), EventList(6, 0, 0, 0),
      EventList(5, 1, 0, 0), EventList(0, 6, 0, 0), EventList(0, 5, 0, 0) }

NextMorning == \E events \in MorningEventLists : UpdatePatterns(events)

SpecMorning == InitPatterns /\ [][NextMorning]_vars

\* the weekday events between 7 and 10 o'clock
QualifyingMorning(events) ==
    Cardinality({ i \in DOMAIN events :
                    /\ events[i].weekday < SATURDAY
                    /\ events[i].hour >= MORNING_FROM /\ events[i].hour <= MORNING_TO })

\* the last update stored a morning_departure pattern from five qualifying events
StoredFromFive ==
    /\ ret.op = "update_patterns"
    /\ QualifyingMorning(ret.arg) = 5
    /\ \E i \in DOMAIN door_patterns :
          /\ door_patterns[i].type = "morning_departure"
          /\ door_patterns[i].observations = 5

\* the events of this update are those of the last one and a sixth qualifying one
AddsSixth ==
    /\ ret'.op = "update_patterns"
    /\ Len(ret'.arg) = Len(ret.arg) + 1
    /\ SubSeq(ret'.arg, 1, Len(ret.arg)) = ret.arg
    /\ QualifyingMorning(ret'.arg) = 6

\* C26: after update has stored a morning_departure pattern from five qualifying
\* weekday-morning events, a further update whose events add a sixth leaves a
\* stored morning_departure pattern with observations 6 and confidence 0.6 that
\* is flagged promoted, and the profile has a routine keyed 'morning_departure'
\* with source 'door_pattern' whose value is that pattern's description.
C26_SixthEventPromotes ==
    [][(StoredFromFive /\ AddsSixth)
          => \E i \in DOMAIN door_patterns' :
                /\ door_patterns'[i].type = "morning_departure"
                /\ door_patterns'[i].observations = 6
                /\ door_patterns'[i].confidence = 6
                /\ door_patterns'[i].promoted
                /\ \E r \in DOMAIN routines' :
                      /\ routines'[r].key = "morning_departure"
                      /\ routines'[r].source = "door_pattern"
                      /\ routines'[r].value = door_patterns'[i].description
                /\ profile_disk'.routines = routines'
      ]_vars

\* the time bucket of the morning_departure pattern detected in the events
MorningBucket(events) ==
    WindowPatterns(events, "morning_departure", MORNING_FROM, MORNING_TO)[1].time_bucket

\* the morning_departure pattern of these events is stored and already promoted
PromotedBefore(events) ==
    LET k == FindPattern(door_patterns, "morning_departure", MorningBucket(events))
    IN  k # 0 /\ door_patterns[k].promoted

\* C26, amended: the same, provided the morning_departure pattern for the mean
\* time of the six events was not promoted before the update; the pattern that
\* ends with observations 6 is the one for that mean time.
C26_SixthEventPromotesUnpromoted ==
    [][(StoredFromFive /\ AddsSixth /\ ~PromotedBefore(ret'.arg))
          => LET i == FindPattern(door_patterns', "morning_departure", MorningBucket(ret'.arg))
             IN  /\ i # 0
                 /\ door_patterns'[i].observations = 6
                 /\ door_patterns'[i].confidence = 6
                 /\ door_patterns'[i].promoted
                 /\ \E r \in DOMAIN routines' :
                       /\ routines'[r].key = "morning_departure"
                       /\ routines'[r].source = "door_pattern"
                       /\ routines'[r].value = door_patterns'[i].description
                 /\ profile_disk'.routines = routines'
      ]_vars

\* the sixth event moved the mean: the five-event pattern is still stored,
\* unpromoted, next to the promoted six-event one
C26_Witness ==
    /\ ret.op = "update_patterns" /\ ret.arg = EventList(5, 1, 0, 0)
    /\ \E i, j \in DOMAIN door_patterns :
          /\ door_patterns[i].type = "morning_departure"
          /\ door_patterns[i].observations = 5 /\ ~door_patterns[i].promoted
          /\ door_patterns[j].type = "morning_departure"
          /\ door_patterns[j].observations = 6 /\ door_patterns[j].promoted
          /\ door_patterns[j].time_bucket = <<8, 12>>
    /\ \E r \in DOMAIN routines :
          routines[r] = [key |-> "morning_departure",
                         value |-> <<"morning_departure", <<8, 12>> >>,
                         source |-> "door_pattern"]

(***************************************************************************)
(* Two process_mention calls in flight on one graph.  The graph has no     *)
(* lock, so a call is three steps, cut where another call can run in       *)
(* between: find_by_name (line 254), _generate_key inside add_person       *)
(* (line 136, it reads the keys), and the assignment of the person under   *)
(* that key with the _save (lines 139-159).  A call that found matches     *)
(* finishes in one step.  The calls carry a name only.                     *)
(***************************************************************************)
RaceNames == { <<"m", "a">>, <<"m", "a", " ", "x">> }

WithCall(c, call) == [mention_calls EXCEPT ![c] = call]

\* process_mention line 254: matches = self.find_by_name(name)
MatchStep(c, name) ==
    LET matches == FindByName(people, name, DEFAULT_THRESHOLD)
    IN  /\ mention_calls[c].pc = "idle"
        /\ mention_calls' = WithCall(c, [pc |-> "matched", name |-> name,
                                         matches |-> matches, key |-> <<>>])
        /\ ret' = [op |-> "find_by_name", arg |-> [call |-> c, name |-> name],
                   val |-> matches]
        /\ UNCHANGED <<now, profileVars, graphVars, patternVars, consVars, saveVars,
                       gapVars, presenceVars>>

\* add_person line 136: key = self._generate_key(name, relationship_type)
GenerateKeyStep(c) ==
    LET call == mention_calls[c]
        key == GenerateKey(people, call.name, "acquaintance")
    IN  /\ call.pc = "matched" /\ call.matches = <<>>
        /\ mention_calls' = WithCall(c, [call EXCEPT !.pc = "keyed", !.key = key])
        /\ ret' = [op |-> "_generate_key", arg |-> [call |-> c, name |-> call.name],
                   val |-> key]
        /\ UNCHANGED <<now, profileVars, graphVars, patternVars, consVars, saveVars,
                       gapVars, presenceVars>>

StoreAtKeyAppending(ppl, key, person) == Append(ppl, person)

\* self._data["people"][key] = {...}: a key already there keeps its place in the dict
StoreAtKey(ppl, key, person) ==
    IF key \in Keys(ppl)
    THEN [i \in DOMAIN ppl |-> IF ppl[i].key = key THEN person ELSE ppl[i]]
    ELSE Append(ppl, person)

\* add_person lines 139-161 and process_mention lines 263-265
StorePersonStep(c) ==
    LET call == mention_calls[c]
        fresh == WithPerson(<<>>, call.name, "acquaintance", <<>>, now)[1]
    IN  /\ call.pc = "keyed"
        /\ people' = StoreAtKey(people, call.key, [fresh EXCEPT !.key = call.key])
        /\ WithinGraphBounds(people')
        /\ mention_calls' = WithCall(c, [call EXCEPT !.pc = "done"])
        /\ ret' = [op |-> "process_mention", arg |-> [call |-> c, name |-> call.name],
                   val |-> [action |-> "created", key |-> call.key]]
        /\ UNCHANGED <<now, pending, profileVars, patternVars, consVars, saveVars,
                       gapVars, presenceVars>>

\* process_mention lines 267-305 for a call that found matches
MatchedStep(c) ==
    LET call == mention_calls[c]
        matches == call.matches
        resolved == AutoResolve(people, matches, NoneVal, now)
        to == IF Len(matches) = 1 THEN matches[1].idx ELSE resolved
    IN  /\ call.pc = "matched" /\ matches # <<>>
        /\ IF to # 0
           THEN /\ people' = WithUpdate(people, to, NoneVal, <<>>,
                                        [visiting |-> FALSE, visit_time |-> NoneVal], now)
                /\ pending' = pending
                /\ ret' = [op |-> "process_mention", arg |-> [call |-> c, name |-> call.name],
                           val |-> [action |-> "updated", key |-> people[to].key]]
           ELSE /\ people' = people
                /\ pending' = WithPendingClarification(pending, people, call.name, matches, now)
                /\ ret' = [op |-> "process_mention", arg |-> [call |-> c, name |-> call.name],
                           val |-> [action |-> "ambiguous",
                                    matches |-> Candidates(people, matches)]]
        /\ WithinGraphBounds(people')
        /\ mention_calls' = WithCall(c, [call EXCEPT !.pc = "done"])
        /\ UNCHANGED <<now, profileVars, patternVars, consVars, saveVars,
                       gapVars, presenceVars>>

NextRace ==
    \/ \E c \in CallIds, name \in RaceNames : MatchStep(c, name)
    \/ \E c \in CallIds : GenerateKeyStep(c)
    \/ \E c \in CallIds : StorePersonStep(c)
    \/ \E c \in CallIds : MatchedStep(c)
    \/ \E days \in GraphTickDays : TickGraph(days)

SpecRace == InitGraph /\ [][NextRace]_vars

\* the stored people with that name
Named(name) == { i \in DOMAIN people : people[i].name = name }

\* both calls were for that name and have returned
BothReturned(name) ==
    \A c \in CallIds : mention_calls[c].pc = "done" /\ mention_calls[c].name = name

\* C27: two process_mention calls for one name unknown before.  When both did
\* their match step before either stored its person, one or two Person records
\* hold the name afterwards, two exactly when the calls generated different
\* keys; when one call matched only after the other had stored its person (the
\* calls ran one after the other), exactly one Person record holds the name.
C27_InterleavedMentionsDuplicate ==
    \A name \in RaceNames :
        BothReturned(name) =>
            IF \A c \in CallIds : mention_calls[c].matches = <<>>
            THEN /\ Cardinality(Named(name)) \in { 1, 2 }
                 /\ Cardinality(Named(name)) = 2
                        <=> mention_calls[1].key # mention_calls[2].key
            ELSE /\ Cardinality(Named(name)) = 1
                 /\ people[CHOOSE i \in Named(name) : TRUE].mention_count = 2

\* both calls matched nothing and two records hold the one name
C27_Witness ==
    \E name \in RaceNames :
        /\ BothReturned(name)
        /\ \A c \in CallIds : mention_calls[c].matches = <<>>
        /\ Cardinality(Named(name)) = 2

(***************************************************************************)
(* _auto_resolve on up to three people of one name.  The people are built  *)
(* by add_person, record_mention and set_expected_visit; the call is made  *)
(* as process_mention makes it, on the matches of find_by_name when there  *)
(* are several, with the relationship type of the mention as the hint.     *)
(***************************************************************************)
MaxCandidates == 3

CandidateName == <<"m", "a">>
HintArgs == { NoneVal, "friend" }

WithinCandidateBounds(ppl) ==
    /\ Len(ppl) <= MaxCandidates
    /\ \A i \in DOMAIN ppl :
          /\ ppl[i].mention_count <= MaxMentions
          /\ Len(ppl[i].expected_visits) <= MaxVisits

\* add_person(name, relationship_type)
AddCandidate(relationship_type) ==
    /\ people' = WithPerson(people, CandidateName, relationship_type, <<>>, now)
    /\ WithinCandidateBounds(people')
    /\ ret' = [op |-> "add_person", arg |-> [name |-> CandidateName],
               val |-> [key |-> people'[Len(people')].key]]
    /\ UNCHANGED <<now, pending, profileVars, patternVars, consVars, saveVars, gapVars, callVars, presenceVars>>

\* record_mention(key)
RecordMention(idx) ==
    /\ idx \in DOMAIN people
    /\ people' = WithMention(people, idx, now)
    /\ WithinCandidateBounds(people')
    /\ ret' = [op |-> "record_mention", arg |-> people[idx].key, val |-> TRUE]
    /\ UNCHANGED <<now, pending, profileVars, patternVars, consVars, saveVars, gapVars, callVars, presenceVars>>

\* set_expected_visit(key, "soon")
SetExpectedVisit(idx) ==
    /\ idx \in DOMAIN people
    /\ people' = WithExpectedVisit(people, idx, "soon")
    /\ WithinCandidateBounds(people')
    /\ ret' = [op |-> "set_expected_visit", arg |-> people[idx].key, val |-> TRUE]
    /\ UNCHANGED <<now, pending, profileVars, patternVars, consVars, saveVars, gapVars, callVars, presenceVars>>

\* process_mention line 287: self._auto_resolve(matches, relationship_type)
AutoResolveCall(relationship_hint) ==
    LET matches == FindByName(people, CandidateName, DEFAULT_THRESHOLD)
    IN  /\ Len(matches) > 1
        /\ ret' = [op |-> "_auto_resolve",
                   arg |-> [matches |-> matches, relationship_hint |-> relationship_hint],
                   val |-> AutoResolve(people, matches, relationship_hint, now)]
        /\ UNCHANGED <<now, profileVars, graphVars, patternVars, consVars, saveVars, gapVars, callVars, presenceVars>>

NextOrder ==
    \/ \E relationship_type \in RelationshipTypes : AddCandidate(relationship_type)
    \/ \E idx \in 1..MaxCandidates : RecordMention(idx)
    \/ \E idx \in 1..MaxCandidates : SetExpectedVisit(idx)
    \/ \E relationship_hint \in HintArgs : AutoResolveCall(relationship_hint)
    \/ \E days \in GraphTickDays : TickGraph(days)

SpecOrder == InitGraph /\ [][NextOrder]_vars

\* what each heuristic selects from all the candidates of the call, in the
\* order relationship hint, recently mentioned, has an expected visit
HeuristicSelections ==
    LET matches == ret.arg.matches
        Of(i) == people[matches[i].idx]
    IN  << IF Truthy(ret.arg.relationship_hint)
           THEN { matches[i].idx : i \in { j \in DOMAIN matches :
                      Of(j).relationship_type = ret.arg.relationship_hint } }
           ELSE {},
           { matches[i].idx : i \in { j \in DOMAIN matches :
                      now - Of(j).last_mentioned < RECENT_DAYS } },
           { matches[i].idx : i \in { j \in DOMAIN matches :
                      Len(Of(j).expected_visits) > 0 } } >>

\* C28: with several candidates, _auto_resolve returns the candidate of the
\* first heuristic, in the order relationship hint, recently mentioned (last 7
\* days), has an expected visit, that selects exactly one of all the
\* candidates; each earlier heuristic selected none or more than one, and
\* when no heuristic selects exactly one of all the candidates it returns None.
C28_FirstSingleHeuristicWins ==
    ret.op = "_auto_resolve" =>
        LET sel == HeuristicSelections
        IN  IF ret.val # 0
            THEN \E k \in DOMAIN sel :
                    /\ sel[k] = { ret.val }
                    /\ \A j \in 1..(k - 1) : Cardinality(sel[j]) # 1
            ELSE \A k \in DOMAIN sel : Cardinality(sel[k]) # 1

\* three candidates, two of them friends and recently mentioned: the hint and
\* the recency select two each, and the visit heuristic picks the third, whom
\* neither earlier heuristic had selected
C28_Witness ==
    /\ ret.op = "_auto_resolve" /\ Len(ret.arg.matches) = 3
    /\ LET sel == HeuristicSelections
       IN  /\ Cardinality(sel[1]) = 2 /\ sel[2] = sel[1]
           /\ Cardinality(sel[3]) = 1 /\ sel[3] \cap sel[1] = {}
           /\ sel[3] = { ret.val }

(***************************************************************************)
(* Further claims about the pattern detector, checked under SpecPatterns.  *)
(***************************************************************************)
\* C30: after any sequence of update calls no two stored patterns share the
\* same (type, time_bucket) pair, and every stored pattern has observations
\* >= 5 and confidence equal to min(observations / 10, 1.0).
C30_StoredPatternsWellFormed ==
    /\ \A i, j \in DOMAIN door_patterns :
          (door_patterns[i].type = door_patterns[j].type
              /\ door_patterns[i].time_bucket = door_patterns[j].time_bucket) => i = j
    /\ \A i \in DOMAIN door_patterns :
          /\ door_patterns[i].observations >= MIN_OBSERVATIONS
          /\ door_patterns[i].confidence
                = IF door_patterns[i].observations < FULL_CONFIDENCE_AT
                  THEN door_patterns[i].observations ELSE FULL_CONFIDENCE_AT

\* a second update found 11 morning events: the morning pattern has the new
\* count and the confidence at its cap, and earlier patterns are still stored
C30_Witness ==
    /\ ret.op = "update_patterns" /\ ret.arg = EventList(6, 5, 0, 0)
    /\ \E i \in DOMAIN door_patterns :
          /\ door_patterns[i].type = "morning_departure"
          /\ door_patterns[i].observations = 11
          /\ door_patterns[i].confidence = FULL_CONFIDENCE_AT
          /\ door_patterns[i].promoted
    /\ Len(door_patterns) > Len(ret.val)

(***************************************************************************)
(* The presence tracker.  Time is in hours in this specification; a door   *)
(* event is the hour it was recorded at, hour 0 being a Monday at          *)
(* midnight.                                                               *)
(***************************************************************************)
MaxHistory == 6
MaxPresenceHour == 1080

DAYS_IN_WEEK == 7
HISTORY_RETENTION_DAYS == 30
MIN_EVENTS_FOR_ANALYSIS == 5
SECONDS_IN_HOUR == 3600

PresenceTickHours == { 168, 360 }

\* datetime.weekday(), .hour and .minute of a recorded event
AsDateTime(e) ==
    Event((e \div HOURS_PER_DAY) % DAYS_IN_WEEK, e % HOURS_PER_DAY, 0)

\* _save_state lines 53-54: the events newer than the cutoff
TrimmedHistory(history, t) ==
    LET cutoff == t - HISTORY_RETENTION_DAYS * HOURS_PER_DAY
    IN  SelectSeq(history, LAMBDA e : e > cutoff)

HistoryBeforeSave(history, t) == history

\* the event_history that _analyze_patterns reads, for the history after the
\* append of line 81: _save_state has run (line 82) before the call of line 85
HistoryAtAnalysis(history, t) == TrimmedHistory(history, t)

\* record_door_event, with the _save_state and the _analyze_patterns it calls
RecordDoorEvent ==
    LET appended == Append(event_history, now)
        saved == TrimmedHistory(appended, now)
        read == HistoryAtAnalysis(appended, now)
        analysed == Len(read) >= MIN_EVENTS_FOR_ANALYSIS
        handed == [i \in DOMAIN read |-> AsDateTime(read[i])]
    IN  /\ Len(appended) <= MaxHistory
        /\ last_door_event' = <<now>>
        /\ event_history' = saved
        /\ IF analysed
           THEN UpdatePatternsStores(handed)
           ELSE UNCHANGED <<door_patterns, routineCalls, routines, profile_disk>>
        /\ ret' = [op |-> "record_door_event",
                   arg |-> [analysed |-> analysed,
                            handed |-> IF analysed THEN read ELSE <<>>,
                            dropped |-> Len(appended) - Len(saved)],
                   val |-> [current_time |-> now, previous_door_event |-> last_door_event,
                            seconds_since_last |->
                                IF last_door_event = <<>> THEN <<>>
                                ELSE <<SECONDS_IN_HOUR * (now - last_door_event[1])>>]]
        /\ UNCHANGED <<now, learned_facts, nextFactId, graphVars, consVars, saveVars,
                       gapVars, callVars>>

TickPresence(hours) ==
    /\ now + hours <= MaxPresenceHour
    /\ now' = now + hours
    /\ ret' = [op |-> "tick", arg |-> <<>>, val |-> <<>>]
    /\ UNCHANGED <<profileVars, graphVars, patternVars, consVars, saveVars, gapVars,
                   callVars, presenceVars>>

NextPresence ==
    \/ RecordDoorEvent
    \/ \E hours \in PresenceTickHours : TickPresence(hours)

SpecPresence == InitPatterns /\ [][NextPresence]_vars

\* C29: every time record_door_event triggers pattern analysis, the history
\* has been trimmed in that same call: the events handed to the pattern
\* detector are the stored history, each of them is newer than the 30-day
\* retention horizon, and at least 5 events are handed over.
C29_AnalysisSeesTrimmedHistory ==
    (ret.op = "record_door_event" /\ ret.arg.analysed) =>
        /\ ret.arg.handed = event_history
        /\ \A i \in DOMAIN ret.arg.handed :
              ret.val.current_time - ret.arg.handed[i] < HISTORY_RETENTION_DAYS * HOURS_PER_DAY
        /\ Len(ret.arg.handed) >= 5

\* an analysis in a call whose _save_state dropped an event that had become
\* 30 days old: five newer events are handed over
C29_Witness ==
    /\ ret.op = "record_door_event" /\ ret.arg.analysed
    /\ ret.arg.dropped > 0
    /\ Len(ret.arg.handed) = 5

(***************************************************************************)
(* Further claims about the consolidator, checked under SpecCons.          *)
(***************************************************************************)
\* C31: consolidate, whether it succeeds, fails or does nothing, leaves the
\* facts (all fields, status included), the preferences, routines and
\* interests and the stored patterns exactly as they were before the call.
C31_ConsolidateOnlyReads ==
    [][ret'.op = "consolidate"
          => /\ learned_facts' = learned_facts
             /\ preferences' = preferences
             /\ routines' = routines
             /\ interests' = interests
             /\ door_patterns' = door_patterns
      ]_vars

(***************************************************************************)
(* add_fact with the classifier's reply on record: the call is recorded    *)
(* with the kind of reply the classifier gave (it raised, or it answered). *)
(***************************************************************************)
AddFactWithReply(text, confidence, reply) ==
    AddFactAs(text, confidence, reply, <<text, confidence, reply.kind>>)

NextFailSafe ==
    \/ \E text \in FactTexts, confidence \in ConfidenceArgs, reply \in ClassifierReplies :
           AddFactWithReply(text, confidence, reply)
    \/ \E days \in TickDays : TickProfile(days)

SpecFailSafe == InitProfile /\ [][NextFailSafe]_vars

\* the classifier is consulted: the text is not known and an active fact is stored
ClassifierConsulted(text) ==
    /\ SameTextStored(learned_facts, text) = {}
    /\ GetFactsResult(learned_facts, now, FADE_THRESHOLD) # <<>>

\* C32: when the classifier call fails, add_fact of a text not yet known
\* stores the new fact with an empty contradicts set, changes no stored
\* fact's contradicts set, and returns normally, as it does after 'NONE'.
C32_ClassifierFailureIsNoContradiction ==
    [][(ret'.op = "add_fact" /\ ret'.arg[3] = "error" /\ ClassifierConsulted(ret'.arg[1]))
          => /\ ret'.val = "learned"
             /\ Len(learned_facts') = Len(learned_facts) + 1
             /\ learned_facts'[Len(learned_facts')].fact = ret'.arg[1]
             /\ learned_facts'[Len(learned_facts')].contradicts = {}
             /\ \A i \in DOMAIN learned_facts :
                   /\ learned_facts'[i].id = learned_facts[i].id
                   /\ learned_facts'[i].contradicts = learned_facts[i].contradicts
             /\ profile_disk'.learned_facts = learned_facts'
      ]_vars

\* the second fact was learned while the classifier was down and the first
\* fact was active: neither names the other
C32_Witness ==
    /\ ret.op = "add_fact" /\ ret.arg[3] = "error" /\ ret.val = "learned"
    /\ Len(learned_facts) = 2
    /\ learned_facts[1].status = "active"
    /\ learned_facts[1].last_reinforced = now
    /\ \A i \in DOMAIN learned_facts : learned_facts[i].contradicts = {}

(***************************************************************************)
(* Python floats.  _calculate_effective_confidence computes with binary64  *)
(* numbers, and at the thresholds the rounding decides the comparison, so  *)
(* the decay is computed here as Python computes it.  A natural number is  *)
(* the sequence of its digits to the base 2^15, lowest first; a float is   *)
(* (-1)^neg * n * 2^-s with n of at most 53 bits, every operation rounding *)
(* its exact result to the nearest such number, ties to the even one.      *)
(* Exponent limits are not modelled: the numbers stay between 2^-60 and 16.*)
(***************************************************************************)
MANTISSA_BITS == 53
QuotientBits == 60
LimbBits == 15
LIMB == 32768

RECURSIVE Limbs(_)
Limbs(n) == IF n = 0 THEN <<>> ELSE <<n % LIMB>> \o Limbs(n \div LIMB)

LimbAt(a, i) == IF i \in DOMAIN a THEN a[i] ELSE 0

\* without the leading zeros
RECURSIVE Trim(_)
Trim(a) == IF a # <<>> /\ a[Len(a)] = 0 THEN Trim(SubSeq(a, 1, Len(a) - 1)) ELSE a

RECURSIVE PowerOfTwo(_)
PowerOfTwo(k) == IF k = 0 THEN 1 ELSE 2 * PowerOfTwo(k - 1)

\* the number of bits of the small number n
RECURSIVE SmallBitLength(_)
SmallBitLength(n) == IF n = 0 THEN 0 ELSE 1 + SmallBitLength(n \div 2)

BitLength(a) ==
    LET t == Trim(a)
    IN  IF t = <<>> THEN 0 ELSE LimbBits * (Len(t) - 1) + SmallBitLength(t[Len(t)])

RECURSIVE AddFrom(_, _, _, _)
AddFrom(a, b, i, carry) ==
    IF i > Len(a) /\ i > Len(b) THEN (IF carry = 0 THEN <<>> ELSE <<carry>>)
    ELSE LET sum == LimbAt(a, i) + LimbAt(b, i) + carry
         IN  <<sum % LIMB>> \o AddFrom(a, b, i + 1, sum \div LIMB)

AddLimbs(a, b) == AddFrom(a, b, 1, 0)

\* a - b for a >= b
RECURSIVE SubFrom(_, _, _, _)
SubFrom(a, b, i, borrow) ==
    IF i > Len(a) THEN <<>>
    ELSE LET diff == LimbAt(a, i) - LimbAt(b, i) - borrow
         IN  <<diff % LIMB>> \o SubFrom(a, b, i + 1, IF diff < 0 THEN 1 ELSE 0)

SubLimbs(a, b) == Trim(SubFrom(a, b, 1, 0))

LessLimbs(a, b) ==
    LET differ == { i \in DOMAIN a \cup DOMAIN b : LimbAt(a, i) # LimbAt(b, i) }
        top == CHOOSE i \in differ : \A j \in differ : j <= i
    IN  differ # {} /\ LimbAt(a, top) < LimbAt(b, top)

\* a * m for a small number m < 2^15
RECURSIVE MulSmallFrom(_, _, _, _)
MulSmallFrom(a, m, i, carry) ==
    IF i > Len(a) THEN (IF carry = 0 THEN <<>> ELSE <<carry>>)
    ELSE LET product == a[i] * m + carry
         IN  <<product % LIMB>> \o MulSmallFrom(a, m, i + 1, product \div LIMB)

MulSmall(a, m) == MulSmallFrom(a, m, 1, 0)

ShiftLimbs(a, k) == IF k <= 0 \/ a = <<>> THEN a ELSE [i \in 1..k |-> 0] \o a

\* a * 2^k
ShiftLeft(a, k) ==
    IF k <= 0 THEN a
    ELSE ShiftLimbs(MulSmall(a, PowerOfTwo(k % LimbBits)), k \div LimbBits)

\* a * b: a times every digit of b, shifted to its place, summed up
RECURSIVE MulFrom(_, _, _, _)
MulFrom(a, b, i, sum) ==
    IF i > Len(b) THEN sum
    ELSE MulFrom(a, b, i + 1, AddLimbs(sum, ShiftLimbs(MulSmall(a, b[i]), i - 1)))

MulLimbs(a, b) == MulFrom(a, b, 1, <<>>)

\* long division by the small number d < 2^15, from digit i down, with the
\* remainder and the quotient of the digits above
RECURSIVE DivFrom(_, _, _, _, _)
DivFrom(a, i, rem, q, d) ==
    IF i = 0 THEN [q |-> Trim(q), r |-> rem]
    ELSE LET x == rem * LIMB + a[i]
         IN  DivFrom(a, i - 1, x % d, <<x \div d>> \o q, d)

\* quotient and remainder of a by the small number d
DivSmall(a, d) == DivFrom(a, Len(a), 0, <<>>, d)

\* floor(a / 2^k), and whether anything was cut off
ShiftRight(a, k) ==
    LET whole == k \div LimbBits
        cut == SubSeq(a, 1, Min(whole, Len(a)))
        left == SubSeq(a, whole + 1, Len(a))
        qr == DivSmall(left, PowerOfTwo(k % LimbBits))
    IN  [q |-> qr.q, inexact |-> qr.r # 0 \/ \E i \in DOMAIN cut : cut[i] # 0]

IsOdd(a) == a # <<>> /\ a[1] % 2 = 1

\* round n * 2^-s (and something more below its last bit, if sticky) to nearest, ties to even
RoundLimbs(n, s, sticky) ==
    LET shift == BitLength(n) - MANTISSA_BITS
        above == ShiftRight(n, shift - 1)
        half == IsOdd(above.q)
        keep == ShiftRight(above.q, 1).q
        up == half /\ (sticky \/ above.inexact \/ IsOdd(keep))
    IN  IF shift <= 0 THEN [n |-> Trim(n), s |-> s]
        ELSE [n |-> IF up THEN AddLimbs(keep, <<1>>) ELSE keep, s |-> s - shift]

Float(neg, m) == [neg |-> neg, n |-> m.n, s |-> m.s]

\* a / b for small naturals: Python's int / int, and the float a decimal literal a/b denotes
FloatDiv(a, b) ==
    LET qr == DivSmall(ShiftLeft(Limbs(a), QuotientBits), b)
    IN  Float(FALSE, RoundLimbs(qr.q, QuotientBits, qr.r # 0))

\* x * y
FloatMul(x, y) == Float(x.neg # y.neg, RoundLimbs(MulLimbs(x.n, y.n), x.s + y.s, FALSE))

\* x - y for x, y >= 0
FloatSub(x, y) ==
    LET s == IF x.s > y.s THEN x.s ELSE y.s
        xn == ShiftLeft(x.n, s - x.s)
        yn == ShiftLeft(y.n, s - y.s)
    IN  IF LessLimbs(xn, yn) THEN Float(TRUE, RoundLimbs(SubLimbs(yn, xn), s, FALSE))
        ELSE Float(FALSE, RoundLimbs(SubLimbs(xn, yn), s, FALSE))

IsZero(x) == Trim(x.n) = <<>>

\* x < y
FloatLess(x, y) ==
    LET s == IF x.s > y.s THEN x.s ELSE y.s
        xn == ShiftLeft(x.n, s - x.s)
        yn == ShiftLeft(y.n, s - y.s)
    IN  IF x.neg /\ ~IsZero(x) THEN ~(y.neg /\ ~IsZero(y)) \/ LessLimbs(yn, xn)
        ELSE ~(y.neg /\ ~IsZero(y)) /\ LessLimbs(xn, yn)

\* the float of the literal units/70: 49 is 0.7, 21 is 0.3, 7 is 0.1, 70 is 1.0
Literal(units) == FloatDiv(units, MAX_CONFIDENCE)

\* _calculate_effective_confidence, as Python computes it
FloatEffectiveConfidence(fact, t) ==
    LET days_elapsed == t - fact.last_reinforced
        weeks_elapsed == FloatDiv(days_elapsed, DAYS_IN_WEEK)
        decay == FloatMul(weeks_elapsed, Literal(CONFIDENCE_DECAY_PER_WEEK))
        effective == FloatSub(Literal(fact.confidence), decay)
    IN  IF FloatLess(effective, Literal(0)) THEN Literal(0)
        ELSE IF FloatLess(Literal(MAX_CONFIDENCE), effective) THEN Literal(MAX_CONFIDENCE)
        ELSE effective

\* get_facts lines 410-415
FloatStatusOf(effective_conf) ==
    IF FloatLess(effective_conf, Literal(FORGET_THRESHOLD)) THEN "forgotten"
    ELSE IF FloatLess(effective_conf, Literal(FADE_THRESHOLD)) THEN "faded"
    ELSE "active"

(***************************************************************************)
(* The decay of a fact, day by day, with get_facts computing in floats.    *)
(***************************************************************************)
MaxDecayDay == 56

DecayText == <<"j">>
ClassifierSaysNone == [kind |-> "text", text |-> <<"NONE">>]
DecayTickDays == { 1, 7 }

\* list.sort(key=effective_confidence, reverse=True) on floats: stable, highest first
RECURSIVE FloatInsertDesc(_, _)
FloatInsertDesc(sorted, x) ==
    IF sorted = <<>> THEN <<x>>
    ELSE IF FloatLess(Head(sorted).key, x.key) THEN <<x>> \o sorted
    ELSE <<Head(sorted)>> \o FloatInsertDesc(Tail(sorted), x)

RECURSIVE FloatSortDesc(_)
FloatSortDesc(s) ==
    IF s = <<>> THEN <<>>
    ELSE FloatInsertDesc(FloatSortDesc(SubSeq(s, 1, Len(s) - 1)), s[Len(s)])

\* get_facts, the loop's effect on the stored facts
FloatRefreshStatus(facts, t) ==
    [i \in DOMAIN facts |->
        IF facts[i].status = "forgotten" THEN facts[i]
        ELSE [facts[i] EXCEPT !.status = FloatStatusOf(FloatEffectiveConfidence(facts[i], t))]]

\* get_facts, the returned list before the sort
RECURSIVE FloatFactsAbove(_, _, _)
FloatFactsAbove(facts, t, min_confidence) ==
    IF facts = <<>> THEN <<>>
    ELSE LET f == Head(facts)
             e == FloatEffectiveConfidence(f, t)
             rest == FloatFactsAbove(Tail(facts), t, min_confidence)
         IN  IF f.status # "forgotten" /\ ~FloatLess(e, Literal(min_confidence))
             THEN <<[key |-> e, fact |-> [f EXCEPT !.status = FloatStatusOf(e)]]>> \o rest
             ELSE rest

\* get_facts
GetFactsFloat(min_confidence) ==
    /\ learned_facts' = FloatRefreshStatus(learned_facts, now)
    /\ ret' = [op |-> "get_facts", arg |-> min_confidence,
               val |-> FloatSortDesc(FloatFactsAbove(learned_facts, now, min_confidence))]
    /\ UNCHANGED <<now, routines, profile_disk, nextFactId,
                   graphVars, patternVars, consVars, saveVars, gapVars, callVars, presenceVars>>

TickDecay(days) ==
    /\ now + days <= MaxDecayDay
    /\ now' = now + days
    /\ ret' = [op |-> "tick", arg |-> <<>>, val |-> <<>>]
    /\ UNCHANGED <<profileVars, graphVars, patternVars, consVars, saveVars, gapVars,
                   callVars, presenceVars>>

NextDecay ==
    \/ AddFact(DecayText, DefaultConfidence, ClassifierSaysNone)
    \/ \E m \in MinConfidenceArgs : GetFactsFloat(m)
    \/ \E days \in DecayTickDays : TickDecay(days)

SpecDecay == InitProfile /\ [][NextDecay]_vars

\* a fact of base confidence 0.7 that was never reinforced
NeverReinforced(fact) == fact.confidence = DefaultConfidence /\ fact.reinforcement_count = 0

\* the status the claim gives such a fact after that many days
ClaimedStatus(days_elapsed) ==
    IF days_elapsed <= 4 * DAYS_IN_WEEK THEN "active"
    ELSE IF days_elapsed <= 6 * DAYS_IN_WEEK THEN "faded"
    ELSE "forgotten"

\* C33: a fact with base confidence 0.7 that is never reinforced is classified
\* by get_facts as active up to and including exactly 4 weeks elapsed, faded
\* after that up to and including exactly 6 weeks, and forgotten later; its
\* effective confidence on a later day is never above that on an earlier day,
\* and it is exactly 0 from 7 weeks on.
C33_DecayBoundaries ==
    ret.op = "get_facts" =>
        \A i \in DOMAIN learned_facts :
            LET fact == learned_facts[i]
                days_elapsed == now - fact.last_reinforced
            IN  NeverReinforced(fact) =>
                    /\ fact.status = ClaimedStatus(days_elapsed)
                    /\ days_elapsed >= 7 * DAYS_IN_WEEK
                          => IsZero(FloatEffectiveConfidence(fact, now))
                    /\ days_elapsed > 0
                          => ~FloatLess(FloatEffectiveConfidence(fact, now - 1),
                                        FloatEffectiveConfidence(fact, now))

(***************************************************************************)
(* People with aliases: add_person, add_alias and process_mention.         *)
(***************************************************************************)
MaxAliases == 1

\* add_alias(key, alias)
AddAlias(idx, alias) ==
    /\ idx \in DOMAIN people
    /\ people' = IF \E i \in DOMAIN people[idx].aliases : people[idx].aliases[i] = alias
                 THEN people
                 ELSE [people EXCEPT ![idx].aliases = Append(@, alias)]
    /\ Len(people'[idx].aliases) <= MaxAliases
    /\ ret' = [op |-> "add_alias", arg |-> [key |-> people[idx].key, alias |-> alias],
               val |-> TRUE]
    /\ UNCHANGED <<now, pending, profileVars, patternVars, consVars, saveVars, gapVars,
                   callVars, presenceVars>>

NextAlias ==
    \/ \E name \in PersonNames : AddPerson(name, "acquaintance")
    \/ \E idx \in 1..MaxPeople, alias \in PersonNames : AddAlias(idx, alias)
    \/ \E name \in PersonNames : ProcessMention(name, NoneVal, <<>>, NoVisit)
    \/ \E days \in GraphTickDays : TickGraph(days)

SpecAlias == InitGraph /\ [][NextAlias]_vars

\* C34: find_by_name returns at most one match entry per person, so
\* process_mention returns 'ambiguous' only when at least two distinct people
\* match, and a mention that matches a single person is handled as 'updated'.
C34_OneMatchPerPerson ==
    [][ret'.op = "process_mention"
          => LET matches == FindByName(people, ret'.arg.name, DEFAULT_THRESHOLD)
                 matched == { matches[i].idx : i \in DOMAIN matches }
             IN  /\ \A i, j \in DOMAIN matches : matches[i].idx = matches[j].idx => i = j
                 /\ ret'.val.action = "ambiguous" => Cardinality(matched) >= 2
                 /\ Cardinality(matched) = 1 => ret'.val.action = "updated"
      ]_vars

(***************************************************************************)
(* Claims about resolve_clarification, checked under SpecGraph.            *)
(***************************************************************************)
\* C35 as stated: resolve_clarification(name, chosen_key) records a mention only
\* on a candidate of the pending clarification for the name; when chosen_key
\* names no existing person or no candidate, or nothing is pending for the
\* name, the queue and every person are left unchanged.
C35_ResolveOnlyCandidates ==
    [][ret'.op = "resolve_clarification"
          => LET chosen_key == ret'.arg.chosen_key
                 candidates == CandidateKeys(pending, ret'.arg.name)
             IN  /\ \A i \in DOMAIN people :
                        people'[i] # people[i] => people[i].key \in candidates
                 /\ (\/ chosen_key \notin Keys(people)
                     \/ chosen_key \notin candidates
                     \/ PendingFor(pending, ret'.arg.name) = {})
                       => pending' = pending /\ people' = people
      ]_vars

\* C35: resolve_clarification(name, chosen_key) records a mention on the person
\* stored under chosen_key when there is one, candidate or not, and changes no
\* other person; it takes the clarifications for the name, case ignored, out of
\* the queue and keeps the others in order; when chosen_key names no existing
\* person every person is left unchanged.
C35_ResolveRecordsOnChosenKey ==
    [][ret'.op = "resolve_clarification"
          => LET chosen_key == ret'.arg.chosen_key
                 kept == SelectSeq(pending,
                             LAMBDA c : Lower(c.name) # Lower(ret'.arg.name))
             IN  /\ DOMAIN people' = DOMAIN people
                 /\ \A i \in DOMAIN people :
                        IF people[i].key = chosen_key
                        THEN /\ people'[i].mention_count = people[i].mention_count + 1
                             /\ people'[i].last_mentioned = now
                             /\ people'[i] = [people[i] EXCEPT
                                                 !.mention_count = people'[i].mention_count,
                                                 !.last_mentioned = now]
                        ELSE people'[i] = people[i]
                 /\ pending' = kept
      ]_vars

\* nothing was pending for the name, another name's clarification stays queued,
\* and the stored person under the chosen key had the mention recorded at a later
\* time
C35_Witness ==
    /\ ret.op = "resolve_clarification"
    /\ ret.val.recorded
    /\ ret.val.candidates = {}
    /\ Len(pending) = 1
    /\ \E i \in DOMAIN people :
          /\ people[i].key = ret.arg.chosen_key
          /\ people[i].mention_count = 2
          /\ people[i].last_mentioned = now
          /\ now > 0

\* C36: a process_mention call that returns 'ambiguous' changes no person: none
\* is created, and no candidate's mention_count, last_mentioned, relationship
\* type, details or expected visits change.
C36_AmbiguousTouchesNoPerson ==
    [][(ret'.op = "process_mention" /\ ret'.val.action = "ambiguous")
          => /\ Len(people') = Len(people)
             /\ \A i \in DOMAIN people :
                    /\ people'[i].key = people[i].key
                    /\ people'[i].mention_count = people[i].mention_count
                    /\ people'[i].last_mentioned = people[i].last_mentioned
                    /\ people'[i].relationship_type = people[i].relationship_type
                    /\ people'[i].details = people[i].details
                    /\ people'[i].expected_visits = people[i].expected_visits
      ]_vars

\* a mention with the hint 'friend', made after both candidates' last mention,
\* was left for clarification: the candidates keep their earlier last_mentioned
\* and their stored type
C36_Witness ==
    /\ ret.op = "process_mention"
    /\ ret.val.action = "ambiguous"
    /\ ret.arg.relationship_type = "friend"
    /\ Len(ret.val.matches) = 2
    /\ pending # <<>>
    /\ \A i \in DOMAIN people :
          /\ people[i].last_mentioned < now
          /\ people[i].mention_count = 1
          /\ people[i].relationship_type = "acquaintance"

(***************************************************************************)
(* Derived patterns over changing windows: five events at 08:05, 18:10 or  *)
(* Saturday 23:30, and the same with a sixth event that moves the mean of  *)
(* the morning (08:50, mean 08:12) or evening (19:00, mean 18:18) window   *)
(* or adds to the late-night count.                                        *)
(***************************************************************************)
ShiftEventLists ==
    { EventList(5, 0, 0, 0), EventList(5, 1, 0, 0),
      EventList(0, 0, 5, 0), Append(EventList(0, 0, 5, 0), Event(0, 19, 0)),
      EventList(0, 0, 0, 5), EventList(0, 0, 0, 6) }

NextShift == \E events \in ShiftEventLists : UpdatePatterns(events)

SpecShift == InitPatterns /\ [][NextShift]_vars

DerivedTypes == { "morning_departure", "evening_arrival", "night_owl" }

\* the positions of the patterns of one type
OfType(patterns, type) == { i \in DOMAIN patterns : patterns[i].type = type }

\* C37 as stated: the store holds at most one pattern of each derived type.
C37_OnePatternPerDerivedType ==
    \A type \in DerivedTypes : Cardinality(OfType(door_patterns, type)) <= 1

\* C37: the store holds at most one night_owl pattern and at most one pattern
\* of each (type, time bucket) pair; an update whose events give a derived
\* pattern a time bucket not yet stored for its type adds a pattern of that
\* type and keeps the earlier ones with their counts, and an update that gives
\* a stored time bucket writes the counts of that pattern and adds none.
C37_ShiftedMeanAddsPattern ==
    [][ret'.op = "update_patterns"
          => \A type \in DerivedTypes :
                LET found == OfType(ret'.val, type)
                    new_p == ret'.val[CHOOSE i \in found : TRUE]
                    existing == IF found = {} THEN 0
                                ELSE FindPattern(door_patterns, type, new_p.time_bucket)
                    added == IF found # {} /\ existing = 0 THEN 1 ELSE 0
                IN  /\ Cardinality(found) <= 1
                    /\ Cardinality(OfType(door_patterns', type))
                          = Cardinality(OfType(door_patterns, type)) + added
                    /\ \A i \in OfType(door_patterns, type) :
                          /\ SamePattern(i)
                          /\ i # existing
                                => /\ door_patterns'[i].observations = door_patterns[i].observations
                                   /\ door_patterns'[i].confidence = door_patterns[i].confidence
                          /\ i = existing
                                => door_patterns'[i].observations = new_p.observations
                    /\ \A i, j \in OfType(door_patterns', type) :
                          door_patterns'[i].time_bucket = door_patterns'[j].time_bucket => i = j
                    /\ Cardinality(OfType(door_patterns', "night_owl")) <= 1
      ]_vars

\* a sixth evening event moved the mean from 18:10 to 18:18: both evening_arrival
\* patterns are stored, the earlier one with its five observations, and the one
\* night_owl pattern has been counted twice
C37_Witness ==
    /\ ret.op = "update_patterns"
    /\ ret.arg = Append(EventList(0, 0, 5, 0), Event(0, 19, 0))
    /\ \E i, j \in OfType(door_patterns, "evening_arrival") :
          /\ i < j
          /\ door_patterns[i].time_bucket = <<18, 10>>
          /\ door_patterns[i].observations = 5
          /\ door_patterns[j].time_bucket = <<18, 18>>
          /\ door_patterns[j].observations = 6
    /\ \E k \in OfType(door_patterns, "night_owl") : door_patterns[k].observations = 6

(***************************************************************************)
(* Claims about the routines of promoted patterns, checked under           *)
(* SpecMorning, where update_patterns is the only writer of routines.      *)
(***************************************************************************)
\* the routines stored under the key
RoutinesAt(rts, key) == { rts[i] : i \in { k \in DOMAIN rts : rts[k].key = key } }

\* the patterns the step flags promoted
NewlyPromoted(type) ==
    { i \in OfType(door_patterns', type) :
        /\ door_patterns'[i].promoted
        /\ ~(i \in DOMAIN door_patterns /\ door_patterns[i].promoted) }

\* C38 as stated: for every stored pattern flagged promoted the profile holds a
\* routine with source 'door_pattern' whose value is that pattern's
\* description, and promoting a pattern leaves the routine of every pattern
\* promoted earlier in place.
C38_EveryPromotedPatternHasRoutine ==
    /\ \A i \in DOMAIN door_patterns :
          door_patterns[i].promoted
             => \E r \in DOMAIN routines :
                   /\ routines[r].source = "door_pattern"
                   /\ routines[r].value = door_patterns[i].description
    /\ [][\A i \in DOMAIN door_patterns :
             door_patterns[i].promoted
                => \E r \in DOMAIN routines' :
                      /\ routines'[r].source = "door_pattern"
                      /\ routines'[r].value = door_patterns[i].description
         ]_vars

\* C38: for every pattern type with a stored pattern flagged promoted the
\* profile holds exactly one routine keyed by that type, with source
\* 'door_pattern' and the description of a promoted pattern of that type as
\* value; an update that promotes patterns of a type sets that routine to the
\* description of the last of them in list order, replacing the routine of a
\* pattern of the same type promoted earlier, and leaves the routines of the
\* other types as they were.
C38_RoutineOfLastPromotedOfType ==
    /\ \A i \in DOMAIN door_patterns :
          door_patterns[i].promoted
             => \E j \in OfType(door_patterns, door_patterns[i].type) :
                   /\ door_patterns[j].promoted
                   /\ RoutinesAt(routines, door_patterns[i].type)
                         = { [key |-> door_patterns[i].type,
                              value |-> door_patterns[j].description,
                              source |-> "door_pattern"] }
    /\ [][ret'.op = "update_patterns"
             => \A type \in { door_patterns'[i].type : i \in DOMAIN door_patterns' } :
                   LET newly == NewlyPromoted(type)
                       last == CHOOSE i \in newly : \A j \in newly : j <= i
                   IN  IF newly = {}
                       THEN RoutinesAt(routines', type) = RoutinesAt(routines, type)
                       ELSE RoutinesAt(routines', type)
                              = { [key |-> type,
                                   value |-> door_patterns'[last].description,
                                   source |-> "door_pattern"] }
         ]_vars

\* two weekday_activity patterns are flagged promoted, the 08:00 one promoted
\* first; the routine keyed 'weekday_activity' holds the description of the
\* 08:30 one and no routine holds the description of the 08:00 one
C38_Witness ==
    /\ ret.op = "update_patterns"
    /\ \E i, j \in OfType(door_patterns, "weekday_activity") :
          /\ i < j
          /\ door_patterns[i].promoted /\ door_patterns[j].promoted
          /\ door_patterns[i].time_bucket = <<8, 0>>
          /\ door_patterns[j].time_bucket = <<8, 30>>
          /\ \E r \in DOMAIN routines : routines[r].value = door_patterns[j].description
          /\ \A r \in DOMAIN routines : routines[r].value # door_patterns[i].description

====
